---- MODULE Spec2Model ----
(***************************************************************************)
(* code-cadence: the history rewrite executor (git.UpdateCommitTimes) and  *)
(* the per-repository loops of commit_cadence / commit_cadence_span.       *)
(*                                                                         *)
(* A repository is a commit graph (objects), two branch refs, HEAD and the *)
(* cherry-pick/merge state git keeps in .git.  Every git process the code  *)
(* starts is one action; it may fail, as any process may, and it succeeds  *)
(* only where git can succeed (a branch that exists cannot be created, a   *)
(* checked-out branch cannot be deleted, ...).                             *)
(***************************************************************************)
EXTENDS Integers, Sequences, FiniteSets, TLC

\* ---------------------------------------------------------------- bounds
\* most commits handed to one UpdateCommitTimes call
MaxCommits == 2
\* repositories in the list one command is run on
NumRepos == 2
\* most commits a repository of the list has above its pushed history
MaxUnpushed == 1
\* most git processes that fail for no reason of the repository's within one
\* GetUnpushedCommits call
MaxFailures == 2
\* most unshared commits of the repository a plan is made for on its own
MaxPlanned == 3
\* greatest n and m allocateAcrossDays is called with on its own, and the
\* greatest n it is called with when the days are drawn at random
MaxN == 15
MaxM == 7
MaxJitterN == 5
\* greatest commitCount generateCommitTimesForDay is called with on its own
MaxCount == 3
\* greatest commitCount it is called with when JitterMinutes is 0
MaxPlainCount == 8
\* the largest jitter magnitude, in minutes, whose every draw is explored
MaxJitterMinutes == 4
\* the most commits of a day whose jitters are all drawn from the whole range
MaxDrawn == 2
\* the most pieces of text a subject is made of when git log is parsed
MaxText == 2
\* the most parents of a commit whose git log line is parsed
MaxParents == 3

\* ------------------------------------------------------ program constants
\* git.go:12, the hash of the empty tree; never the id of a commit object
emptyTreeHash == 0
\* part_001:130
RewriteBranchName == "rewrite-history"
\* part_001:115-116
CmdCommitCadence == "commit_cadence"
CmdCommitCadenceSpan == "commit_cadence_span"

\* the empty string where the code holds a hash ("" for Commit.MergeFrom)
NoHash == -1
\* the branch the user works on
MainBranch == "main"
BranchNames == {MainBranch, RewriteBranchName}
\* the remote-tracking ref holding what was pushed of the branch
RemoteRef == "origin/main"

\* the identity git takes from user.name / user.email, and somebody else's
ConfigUser == [name |-> "me", email |-> "me@host"]
OtherUser == [name |-> "other", email |-> "other@host"]
\* wall-clock zones: the zone of the machine's TZ and a different one
LocalZone == "local"
Zones == {LocalZone, "other"}
\* the clock while the rewrite runs (date of commits git creates itself)
NowTime == [sec |-> 2 * 86400 + 9999, zone |-> LocalZone]

\* ----------------------------------------------------------- configuration
\* the defaults loadConfig falls back to (part_001:54-65)
DefaultConfig ==
    [WorkDayStartHour |-> 10, WorkDayEndHour |-> 19, JitterMinutes |-> 30,
     JitterDays |-> TRUE, skipWeekdaysSet |-> {6, 0}, CreateBackup |-> FALSE]

\* a random source that goes beyond the hour
RandDrawsWide == {0, 61}
\* values of rand.Intn(60) explored: the least and the greatest
RandDraws == {0, 59}
\* values of rand.Intn(JitterMinutes*2) - JitterMinutes explored: the least
\* and the greatest; no jitter is drawn when JitterMinutes is 0
JitterDraws(cfg) ==
    IF cfg.JitterMinutes > 0 THEN {0 - cfg.JitterMinutes, cfg.JitterMinutes - 1} ELSE {0}

VARIABLES
    objects,              \* commit id -> commit object of the repository
    refs,                 \* branch name or RemoteRef -> commit id, NoHash when absent
    head,                 \* HEAD: [branch |-> name or "", at |-> id when detached]
    inProgress,           \* "none" | "cherry-pick" | "merge" (CHERRY_PICK_HEAD / MERGE_HEAD)
    commits,              \* UpdateCommitTimes argument: []Commit, oldest first
    newTimes,             \* UpdateCommitTimes argument: planned time per commit
    parentCommitHash,     \* UpdateCommitTimes argument
    branchName,           \* UpdateCommitTimes argument
    newCommitAuthorName,  \* UpdateCommitTimes argument ("" = no override)
    newCommitAuthorEmail, \* UpdateCommitTimes argument ("" = no override)
    pc,                   \* position inside UpdateCommitTimes
    i,                    \* loop index (1-based) of the commit being replayed
    successfulUpdates,    \* the counter UpdateCommitTimes returns
    result,               \* [count, err] once returned; err = "nil" on success
    iter,                 \* this iteration: tip before the apply step, commit it made, recovery steps run
    applyLog,             \* per finished iteration: what apply made and what amend rewrote
    tip0,                 \* tip of the original branch when the call started
    cmd,                  \* the command run: CmdCommitCadence or CmdCommitCadenceSpan
    repo,                 \* position in gitRepos of the repository being processed
    runPc,                \* position inside the command's loop body
    unpushedCommits,      \* what GetUnpushedCommits returned, newest first
    config,               \* the configuration loadConfig left in the package variables
    backups,              \* positions in gitRepos of the repositories createBackup copied
    fnArgs,               \* arguments of the planner function called on its own
    fnResult              \* whether that call has returned, and what

gitVars == <<objects, refs, head, inProgress>>
argVars == <<commits, newTimes, parentCommitHash, branchName,
             newCommitAuthorName, newCommitAuthorEmail, tip0>>
locVars == <<pc, i, successfulUpdates, result, iter, applyLog>>
runVars == <<cmd, repo, runPc, unpushedCommits, config, backups>>
fnVars == <<fnArgs, fnResult>>
\* no planner function is called on its own
NoCall == [fn |-> "none"]
NoResult == [returned |-> FALSE, value |-> <<>>]
vars == <<gitVars, argVars, locVars, runVars, fnVars>>

\* ------------------------------------------------------------ git helpers
Range(s) == {s[n] : n \in DOMAIN s}

RECURSIVE Reverse(_)
Reverse(s) == IF s = <<>> THEN <<>> ELSE Append(Reverse(Tail(s)), Head(s))

\* the commit HEAD resolves to
HeadCommit == IF head.branch = "" THEN head.at ELSE refs[head.branch]

RECURSIVE AncestorsIn(_, _)
\* c and every commit reachable from it through parent links
AncestorsIn(objs, c) ==
    IF c \notin DOMAIN objs THEN {}
    ELSE {c} \cup UNION {AncestorsIn(objs, p) : p \in Range(objs[c].parents)}

Ancestors(c) == AncestorsIn(objects, c)
IsAncestor(a, b) == a \in Ancestors(b)

RECURSIVE FirstParentIn(_, _)
\* git log --first-parent from c, newest first
FirstParentIn(objs, c) ==
    IF c \notin DOMAIN objs THEN <<>>
    ELSE IF objs[c].parents = <<>> THEN <<c>>
    ELSE <<c>> \o FirstParentIn(objs, objs[c].parents[1])

FirstParent(c) == FirstParentIn(objects, c)

\* the id of the next object written to the object store
NewId == Cardinality(DOMAIN objects) + 1

\* HEAD advanced to commit c: the checked-out branch moves, a detached HEAD moves itself
MoveHead(c) ==
    IF head.branch = ""
    THEN /\ head' = [head EXCEPT !.at = c]
         /\ UNCHANGED refs
    ELSE /\ refs' = [refs EXCEPT ![head.branch] = c]
         /\ UNCHANGED head

\* a new commit object on top of HEAD
CommitOnHead(obj) ==
    /\ objects' = objects @@ (NewId :> obj)
    /\ MoveHead(NewId)

\* ------------------------------------------------------------ conversions
\* newTime.Format("2006-01-02T15:04:05"): wall clock to the second, no zone
FormatTime(t) == t.sec
\* git reading GIT_AUTHOR_DATE / GIT_COMMITTER_DATE without a zone: machine's zone
GitParseDate(s) == [sec |-> s, zone |-> LocalZone]

\* author of a commit made with --reset-author under the environment the code builds
AmendAuthor ==
    [name  |-> IF newCommitAuthorName # "" THEN newCommitAuthorName ELSE ConfigUser.name,
     email |-> IF newCommitAuthorEmail # "" THEN newCommitAuthorEmail ELSE ConfigUser.email]

\* ------------------------------------------------- the repository at start
\* how an unshared commit came about: a plain commit, a merge of a side
\* branch forked at the then tip (git merge --no-ff), or a merge of a side
\* branch forked below the shared parent / unrelated to it
Shapes == {"pick", "mergeFork", "mergeOld"}

\* a commit object
Obj(parents, author, date, src) ==
    [parents |-> parents, author |-> author, adate |-> date, cdate |-> date, src |-> src]

OrigDate(j) == [sec |-> j, zone |-> LocalZone]

\* the shared history below the unshared commits: B0 <- P, or nothing
BaseObjects(hasParent) ==
    IF hasParent
    THEN (1 :> Obj(<<>>, OtherUser, OrigDate(0), 1)) @@ (2 :> Obj(<<1>>, OtherUser, OrigDate(0), 2))
    ELSE <<>>

RECURSIVE BuildHistory(_, _, _, _, _, _, _)
\* objs extended by the unshared commits shapes[j..], dated dates[j..], each
\* on top of tip; yields the objects and the mainline ids, oldest first.
\* Commit 1 is always a root commit; a "mergeOld" side branch forks from it.
BuildHistory(objs, tip, line, shapes, author, dates, j) ==
    IF j > Len(shapes) THEN [objects |-> objs, line |-> line]
    ELSE LET n == Cardinality(DOMAIN objs) + 1
             first == IF tip = NoHash THEN <<>> ELSE <<tip>>
         IN IF shapes[j] = "pick"
            THEN BuildHistory(objs @@ (n :> Obj(first, author, dates[j], n)),
                              n, Append(line, n), shapes, author, dates, j + 1)
            ELSE LET side == Obj(IF shapes[j] = "mergeFork" THEN first ELSE <<1>>,
                                 OtherUser, dates[j], n)
                     mrg == Obj(<<tip, n>>, author, dates[j], n + 1)
                 IN BuildHistory(objs @@ (n :> side) @@ ((n + 1) :> mrg),
                                 n + 1, Append(line, n + 1), shapes, author, dates, j + 1)

\* parseCommitsWithMergeInfo on one line of git log: the Commit record of object c
CommitOf(objs, c) ==
    [Hash |-> c,
     Author |-> objs[c].author.name,
     Email |-> objs[c].author.email,
     DateTime |-> objs[c].adate,
     IsMerge |-> Len(objs[c].parents) > 1,
     MergeFrom |-> IF Len(objs[c].parents) > 1 THEN objs[c].parents[2] ELSE NoHash]

\* the planned time of the j-th commit, in zone z
PlannedTime(j, z) == [sec |-> 100 + j, zone |-> z]

\* ---------------------------------------------------- UpdateCommitTimes
NoIter == [tipBefore |-> NoHash, made |-> NoHash, ladder |-> <<>>]

\* the loop ending one commit early
EnterIterationOffByOne(j) ==
    IF j >= Len(commits) THEN "checkoutB"
    ELSE IF commits[j].IsMerge
         THEN IF commits[j].MergeFrom = NoHash THEN "Failed" ELSE "getMessage"
         ELSE "cherryPick"

\* where the loop goes for commit j (git.go:414-421, 516)
EnterIteration(j) ==
    IF j > Len(commits) THEN "checkoutB"
    ELSE IF commits[j].IsMerge
         THEN IF commits[j].MergeFrom = NoHash THEN "Failed" ELSE "getMessage"
         ELSE "cherryPick"

\* return successfulUpdates, err
Return(count, err) ==
    /\ pc' = IF err = "nil" THEN "Done" ELSE "Failed"
    /\ result' = [count |-> count, err |-> err]

\* entering iteration j, or returning at once for a merge without a source
StartIteration(j, count, tip) ==
    /\ i' = j
    /\ iter' = [tipBefore |-> tip, made |-> NoHash, ladder |-> <<>>]
    /\ IF EnterIteration(j) = "Failed"
       THEN Return(count, "mergeSource")
       ELSE /\ pc' = EnterIteration(j)
            /\ UNCHANGED result

\* one more step of the recovery ladder has been run
Tried(step, ok) == [iter EXCEPT !.ladder = Append(@, <<step, ok>>)]

\* git checkout <parentCommitHash>, skipped for the empty tree (git.go:399-404)
CheckoutParent ==
    /\ pc = "checkoutParent"
    /\ IF parentCommitHash = emptyTreeHash
       THEN /\ pc' = "createBranch"
            /\ UNCHANGED <<head, result>>
       ELSE \E ok \in BOOLEAN :
              IF ok /\ parentCommitHash \in DOMAIN objects
              THEN /\ head' = [branch |-> "", at |-> parentCommitHash]
                   /\ pc' = "createBranch"
                   /\ UNCHANGED result
              ELSE /\ Return(0, "checkoutParent")
                   /\ UNCHANGED head
    /\ UNCHANGED <<objects, refs, inProgress, argVars, runVars, fnVars, i, successfulUpdates, iter, applyLog>>

\* git checkout -b <rewriteBranchName> (git.go:406-411)
CreateBranch ==
    /\ pc = "createBranch"
    /\ \E ok \in BOOLEAN :
         IF ok /\ refs[RewriteBranchName] = NoHash
         THEN /\ refs' = [refs EXCEPT ![RewriteBranchName] = HeadCommit]
              /\ head' = [branch |-> RewriteBranchName, at |-> NoHash]
              /\ successfulUpdates' = 0
              /\ StartIteration(1, 0, HeadCommit)
         ELSE /\ Return(0, "createBranch")
              /\ UNCHANGED <<refs, head, successfulUpdates, i, iter>>
    /\ UNCHANGED <<objects, inProgress, argVars, runVars, fnVars, applyLog>>

\* GetCommitMessage(repoPath, commit.Hash): git log --format=%B -n 1 (git.go:423-437)
GetMessage ==
    /\ pc = "getMessage"
    /\ \E ok \in BOOLEAN :
         IF ok /\ commits[i].Hash \in DOMAIN objects
         THEN /\ pc' = "merge"
              /\ UNCHANGED result
         ELSE Return(successfulUpdates, "getMessage")
    /\ UNCHANGED <<gitVars, argVars, runVars, fnVars, i, successfulUpdates, iter, applyLog>>

\* git merge -m <message> <commit.MergeFrom> (git.go:439-442)
Merge ==
    /\ pc = "merge"
    /\ LET m == commits[i].MergeFrom
           tip == HeadCommit
       IN \E outcome \in {"ok", "conflict", "error"} :
            IF outcome = "ok" /\ inProgress = "none" /\ m \in DOMAIN objects
            THEN /\ IF IsAncestor(m, tip)
                    THEN \* Already up to date
                         /\ UNCHANGED <<objects, refs, head>>
                         /\ iter' = iter
                    ELSE IF IsAncestor(tip, m)
                    THEN \* Fast-forward
                         /\ MoveHead(m)
                         /\ UNCHANGED objects
                         /\ iter' = iter
                    ELSE /\ CommitOnHead([parents |-> <<tip, m>>, author |-> ConfigUser,
                                          adate |-> NowTime, cdate |-> NowTime,
                                          src |-> commits[i].Hash])
                         /\ iter' = [iter EXCEPT !.made = NewId]
                 /\ pc' = "amend"
                 /\ UNCHANGED <<inProgress, result>>
            ELSE /\ Return(successfulUpdates, "merge")
                 /\ inProgress' = IF outcome = "conflict" /\ inProgress = "none" /\ m \in DOMAIN objects
                                     /\ ~IsAncestor(m, tip) /\ ~IsAncestor(tip, m)
                                  THEN "merge" ELSE inProgress
                 /\ UNCHANGED <<objects, refs, head, iter>>
    /\ UNCHANGED <<argVars, runVars, fnVars, i, successfulUpdates, applyLog>>

\* h's change is already in the history of HEAD: picking it leaves nothing to
\* commit, and git stops with the cherry-pick in progress (also under
\* --allow-empty, which keeps only commits that were empty to begin with)
Redundant(h) == IsAncestor(h, HeadCommit)

\* the commit a cherry-pick of h writes: h's change and authorship on the tip
Picked(h) ==
    [parents |-> <<HeadCommit>>, author |-> objects[h].author,
     adate |-> objects[h].adate, cdate |-> NowTime, src |-> h]

\* git cherry-pick <commit.Hash> (git.go:447-450)
CherryPick ==
    /\ pc = "cherryPick"
    /\ LET h == commits[i].Hash
       IN \E outcome \in {"ok", "conflict", "error"} :
            IF outcome = "ok" /\ inProgress = "none" /\ h \in DOMAIN objects /\ ~Redundant(h)
            THEN /\ CommitOnHead(Picked(h))
                 /\ iter' = [iter EXCEPT !.made = NewId]
                 /\ pc' = "amend"
                 /\ UNCHANGED inProgress
            ELSE /\ inProgress' = IF outcome # "error" /\ inProgress = "none" /\ h \in DOMAIN objects
                                  THEN "cherry-pick" ELSE inProgress
                 /\ pc' = "status"
                 /\ UNCHANGED <<objects, refs, head, iter>>
    /\ UNCHANGED <<argVars, runVars, fnVars, i, successfulUpdates, result, applyLog>>

\* the cherry-pick started again when no cherry-pick is seen in progress
StatusBranchRetry(statusOk, picking) == IF statusOk /\ picking THEN "continue" ELSE "cherryPick"

\* the in-progress branch never taken: straight to the retry
StatusBranchNoLadder(statusOk, picking) == "allowEmpty"

\* statusErr == nil && strings.Contains(status, "cherry-picking") (git.go:453, 467)
StatusBranch(statusOk, picking) == IF statusOk /\ picking THEN "continue" ELSE "allowEmpty"

\* git status, searched for "cherry-picking" (git.go:451-453, 467)
Status ==
    /\ pc = "status"
    /\ \E statusOk \in BOOLEAN :
         /\ pc' = StatusBranch(statusOk, inProgress = "cherry-pick")
         /\ iter' = Tried("status", statusOk /\ inProgress = "cherry-pick")
    /\ UNCHANGED <<gitVars, argVars, runVars, fnVars, i, successfulUpdates, result, applyLog>>

\* a failed continue followed by the abort at once
ContinueThenAbort ==
    /\ pc = "continue"
    /\ \E ok \in BOOLEAN :
         IF ok /\ inProgress = "cherry-pick" /\ ~Redundant(commits[i].Hash)
         THEN /\ CommitOnHead(Picked(commits[i].Hash))
              /\ inProgress' = "none"
              /\ iter' = [Tried("continue", TRUE) EXCEPT !.made = NewId]
              /\ pc' = "amend"
         ELSE /\ iter' = Tried("continue", FALSE)
              /\ pc' = "abort"
              /\ UNCHANGED <<objects, refs, head, inProgress>>
    /\ UNCHANGED <<argVars, runVars, fnVars, i, successfulUpdates, result, applyLog>>

\* git cherry-pick --continue (git.go:454-456)
Continue ==
    /\ pc = "continue"
    /\ \E ok \in BOOLEAN :
         IF ok /\ inProgress = "cherry-pick" /\ ~Redundant(commits[i].Hash)
         THEN /\ CommitOnHead(Picked(commits[i].Hash))
              /\ inProgress' = "none"
              /\ iter' = [Tried("continue", TRUE) EXCEPT !.made = NewId]
              /\ pc' = "amend"
         ELSE /\ iter' = Tried("continue", FALSE)
              /\ pc' = "skip"
              /\ UNCHANGED <<objects, refs, head, inProgress>>
    /\ UNCHANGED <<argVars, runVars, fnVars, i, successfulUpdates, result, applyLog>>

\* git cherry-pick --skip (git.go:457-459)
Skip ==
    /\ pc = "skip"
    /\ \E ok \in BOOLEAN :
         IF ok /\ inProgress = "cherry-pick"
         THEN /\ inProgress' = "none"
              /\ iter' = Tried("skip", TRUE)
              /\ pc' = "amend"
         ELSE /\ iter' = Tried("skip", FALSE)
              /\ pc' = "abort"
              /\ UNCHANGED inProgress
    /\ UNCHANGED <<objects, refs, head, argVars, runVars, fnVars, i, successfulUpdates, result, applyLog>>

\* git cherry-pick --abort, its error dropped (git.go:460-461)
Abort ==
    /\ pc = "abort"
    /\ \E ok \in BOOLEAN :
         /\ inProgress' = IF ok /\ inProgress = "cherry-pick" THEN "none" ELSE inProgress
         /\ iter' = Tried("abort", ok /\ inProgress = "cherry-pick")
    /\ pc' = "allowEmpty"
    /\ UNCHANGED <<objects, refs, head, argVars, runVars, fnVars, i, successfulUpdates, result, applyLog>>

\* git cherry-pick --allow-empty <commit.Hash> (git.go:462-464, 468-471)
AllowEmpty ==
    /\ pc = "allowEmpty"
    /\ LET h == commits[i].Hash
       IN \E outcome \in {"ok", "conflict", "error"} :
            IF outcome = "ok" /\ inProgress = "none" /\ h \in DOMAIN objects /\ ~Redundant(h)
            THEN /\ CommitOnHead(Picked(h))
                 /\ iter' = [Tried("allowEmpty", TRUE) EXCEPT !.made = NewId]
                 /\ pc' = "amend"
                 /\ UNCHANGED <<inProgress, result>>
            ELSE /\ inProgress' = IF outcome # "error" /\ inProgress = "none" /\ h \in DOMAIN objects
                                  THEN "cherry-pick" ELSE inProgress
                 /\ iter' = Tried("allowEmpty", FALSE)
                 /\ Return(successfulUpdates, "cherryPick")
                 /\ UNCHANGED <<objects, refs, head>>
    /\ UNCHANGED <<argVars, runVars, fnVars, i, successfulUpdates, applyLog>>

\* the commit git commit --amend --no-edit --reset-author writes in place of c
\* under GIT_AUTHOR_DATE / GIT_COMMITTER_DATE and the optional identity
Amended(c, t) ==
    [parents |-> objects[c].parents, author |-> AmendAuthor,
     adate |-> GitParseDate(FormatTime(t)), cdate |-> GitParseDate(FormatTime(t)),
     src |-> objects[c].src]

\* git commit --amend --no-edit --reset-author; successfulUpdates++ (git.go:476-514)
Amend ==
    /\ pc = "amend"
    /\ \E ok \in BOOLEAN :
         IF ok /\ inProgress = "none"
         THEN /\ CommitOnHead(Amended(HeadCommit, newTimes[i]))
              /\ applyLog' = Append(applyLog, [tipBefore |-> iter.tipBefore, made |-> iter.made,
                                               target |-> HeadCommit, stamped |-> NewId])
              /\ successfulUpdates' = successfulUpdates + 1
              /\ StartIteration(i + 1, successfulUpdates + 1, NewId)
         ELSE /\ Return(successfulUpdates, "amend")
              /\ UNCHANGED <<objects, refs, head, applyLog, successfulUpdates, i, iter>>
    /\ UNCHANGED <<inProgress, argVars, runVars, fnVars>>

\* the original branch forced to the new tip first and checked out second,
\* the second step failing
CheckoutBTwoSteps ==
    /\ pc = "checkoutB"
    /\ \E ok \in BOOLEAN :
         /\ refs' = [refs EXCEPT ![branchName] = HeadCommit]
         /\ IF ok /\ inProgress = "none"
            THEN /\ head' = [branch |-> branchName, at |-> NoHash]
                 /\ pc' = "deleteBranch"
                 /\ UNCHANGED result
            ELSE /\ Return(successfulUpdates, "checkoutB")
                 /\ UNCHANGED head
    /\ UNCHANGED <<objects, inProgress, argVars, runVars, fnVars, i, successfulUpdates, iter, applyLog>>

\* git checkout -B <branchName> (git.go:516-519)
CheckoutB ==
    /\ pc = "checkoutB"
    /\ \E ok \in BOOLEAN :
         IF ok /\ inProgress = "none"
         THEN /\ refs' = [refs EXCEPT ![branchName] = HeadCommit]
              /\ head' = [branch |-> branchName, at |-> NoHash]
              /\ pc' = "deleteBranch"
              /\ UNCHANGED result
         ELSE /\ Return(successfulUpdates, "checkoutB")
              /\ UNCHANGED <<refs, head>>
    /\ UNCHANGED <<objects, inProgress, argVars, runVars, fnVars, i, successfulUpdates, iter, applyLog>>

\* the deletion reporting success while the disposable branch stays
DeleteBranchKeepsRef ==
    /\ pc = "deleteBranch"
    /\ \E ok \in BOOLEAN :
         IF ok /\ refs[RewriteBranchName] # NoHash /\ head.branch # RewriteBranchName
         THEN Return(successfulUpdates, "nil")
         ELSE Return(successfulUpdates, "deleteBranch")
    /\ UNCHANGED <<objects, refs, head, inProgress, argVars, runVars, fnVars, i, successfulUpdates, iter, applyLog>>

\* git branch -D <rewriteBranchName> (git.go:521-526)
DeleteBranch ==
    /\ pc = "deleteBranch"
    /\ \E ok \in BOOLEAN :
         IF ok /\ refs[RewriteBranchName] # NoHash /\ head.branch # RewriteBranchName
         THEN /\ refs' = [refs EXCEPT ![RewriteBranchName] = NoHash]
              /\ Return(successfulUpdates, "nil")
         ELSE /\ Return(successfulUpdates, "deleteBranch")
              /\ UNCHANGED refs
    /\ UNCHANGED <<objects, head, inProgress, argVars, runVars, fnVars, i, successfulUpdates, iter, applyLog>>

\* ------------------------------------------------------------ specification
\* UpdateCommitTimes called, as commit_cadence and commit_cadence_span call
\* it, on a repository whose checked-out branch ends in the unshared commits:
\* with the parent of the oldest one, or with the empty tree when it has none
Init ==
    \E hasParent \in BOOLEAN, k \in 1..MaxCommits, author \in {ConfigUser, OtherUser},
       z \in Zones, ovName \in {"", "ovr"}, ovEmail \in {"", "ovr@host"} :
      \E shapes \in [1..k -> Shapes] :
        /\ hasParent \/ shapes[1] = "pick"
        /\ LET h == BuildHistory(BaseObjects(hasParent), IF hasParent THEN 2 ELSE NoHash,
                                 <<>>, shapes, author, [j \in 1..k |-> OrigDate(j)], 1)
           IN /\ objects = h.objects
              /\ refs = (MainBranch :> h.line[k]) @@ (RewriteBranchName :> NoHash)
                        @@ (RemoteRef :> IF hasParent THEN 2 ELSE NoHash)
              /\ tip0 = h.line[k]
              /\ commits = [j \in 1..k |-> CommitOf(h.objects, h.line[j])]
        /\ head = [branch |-> MainBranch, at |-> NoHash]
        /\ inProgress = "none"
        /\ newTimes = [j \in 1..k |-> PlannedTime(j, z)]
        /\ parentCommitHash = IF hasParent THEN 2 ELSE emptyTreeHash
        /\ branchName = MainBranch
        /\ newCommitAuthorName = ovName
        /\ newCommitAuthorEmail = ovEmail
        /\ pc = "checkoutParent"
        /\ i = 0
        /\ successfulUpdates = 0
        /\ result = [count |-> 0, err |-> "none"]
        /\ iter = NoIter
        /\ applyLog = <<>>
        /\ cmd = CmdCommitCadence
        /\ config = DefaultConfig
        /\ backups = {}
        /\ fnArgs = NoCall
        /\ fnResult = NoResult
        /\ repo = 1
        /\ runPc = "call"
        /\ unpushedCommits = Reverse(commits)

Next ==
    \/ CheckoutParent
    \/ CreateBranch
    \/ GetMessage
    \/ Merge
    \/ CherryPick
    \/ Status
    \/ Continue
    \/ Skip
    \/ Abort
    \/ AllowEmpty
    \/ Amend
    \/ CheckoutB
    \/ DeleteBranch

Spec == Init /\ [][Next]_vars

\* every git process the executor starts returns, so that the executor
\* always goes on to its next step
SpecFair == Spec /\ WF_vars(Next)

\* ------------------------------------------------------ calendar and clock
DaySecs == 86400
\* the calendar day of a wall-clock time, counted from 1970-01-01
DayOf(t) == t.sec \div DaySecs
\* time.Weekday of a calendar day, 0 = Sunday; 1970-01-01 was a Thursday
Weekday(d) == (d + 4) % 7
\* seconds a zone's wall clock is ahead of the machine's zone
ZoneOffset(z) == IF z = LocalZone THEN 0 ELSE 0 - 18000
\* t.In(loc): the same instant on the wall clock of zone z
In(t, z) == [sec |-> t.sec - ZoneOffset(t.zone) + ZoneOffset(z), zone |-> z]

\* the calendar days the unshared commits of a repository were made on
\* (a Friday and a Saturday; the shared commits date from the Thursday before)
CommitDays == {1, 2}
\* the original date of the j-th unshared commit made on day d in zone z
OrigDateOn(d, j, z) == [sec |-> d * DaySecs + j, zone |-> z]

\* ------------------------------------------------------------------ planner
RECURSIVE Insert(_, _)
Insert(x, s) ==
    IF s = <<>> THEN <<x>>
    ELSE IF x <= Head(s) THEN <<x>> \o s
    ELSE <<Head(s)>> \o Insert(x, Tail(s))

RECURSIVE SortAsc(_)
\* sort.Slice(times, Before) / sort.Strings(sortedDays)
SortAsc(s) == IF s = <<>> THEN <<>> ELSE Insert(Head(s), SortAsc(Tail(s)))

RECURSIVE SetToSeq(_)
\* the elements of a finite set of integers in some order
SetToSeq(S) ==
    IF S = {} THEN <<>>
    ELSE LET x == CHOOSE y \in S : TRUE IN <<x>> \o SetToSeq(S \ {x})

\* no time is moved into the work day
NoClamp(t, workDayStart, workDayEnd) == t

\* times at or after the end of the work day go to its end
ClampToEnd(t, workDayStart, workDayEnd) ==
    IF t < workDayStart THEN workDayStart
    ELSE IF t >= workDayEnd THEN workDayEnd
    ELSE t

\* times before the work day go to its start, times at or after its end to
\* one minute before the end (part_001:564-571)
Clamp(t, workDayStart, workDayEnd) ==
    IF t < workDayStart THEN workDayStart
    ELSE IF t >= workDayEnd THEN workDayEnd - 60
    ELSE t

\* the work day divided by the number of commits
generateCommitTimesForDayShort(day, z, commitCount, cfg, r, jit) ==
    IF commitCount <= 0 THEN <<>>
    ELSE LET workDayStart == day * DaySecs + cfg.WorkDayStartHour * 3600
             workDayEnd == day * DaySecs + cfg.WorkDayEndHour * 3600
             workDayDuration == workDayEnd - workDayStart
             times == IF commitCount = 1
                      THEN <<workDayEnd - r * 60 + jit[1] * 60>>
                      ELSE LET interval == workDayDuration \div commitCount
                           IN [x \in 1..commitCount |->
                                 workDayStart + (x - 1) * interval + jit[x] * 60]
             clamped == [x \in 1..commitCount |-> Clamp(times[x], workDayStart, workDayEnd)]
             sorted == SortAsc(clamped)
         IN [x \in 1..commitCount |-> [sec |-> sorted[x], zone |-> z]]

\* generateCommitTimesForDay(day, commitCount) in zone z under configuration
\* cfg, r being the value rand.Intn(60) returns and jit[x] the jitter, in
\* minutes, drawn for the x-th time (part_001:531-579)
generateCommitTimesForDay(day, z, commitCount, cfg, r, jit) ==
    IF commitCount <= 0 THEN <<>>
    ELSE LET workDayStart == day * DaySecs + cfg.WorkDayStartHour * 3600
             workDayEnd == day * DaySecs + cfg.WorkDayEndHour * 3600
             workDayDuration == workDayEnd - workDayStart
             times == IF commitCount = 1
                      THEN <<workDayEnd - r * 60 + jit[1] * 60>>
                      ELSE LET interval == workDayDuration \div (commitCount - 1)
                           IN [x \in 1..commitCount |->
                                 workDayStart + (x - 1) * interval + jit[x] * 60]
             clamped == [x \in 1..commitCount |-> Clamp(times[x], workDayStart, workDayEnd)]
             sorted == SortAsc(clamped)
         IN [x \in 1..commitCount |-> [sec |-> sorted[x], zone |-> z]]

\* what generateCommitTimesForDay can return for the draws explored
DayPlans(day, z, commitCount, cfg) ==
    {generateCommitTimesForDay(day, z, commitCount, cfg, r, jit) :
        r \in RandDraws, jit \in [1..commitCount -> JitterDraws(cfg)]}

\* groupCommitsByDay: day -> the commits dated on it, in the order given
\* (part_001:582-598)
groupCommitsByDay(cs) ==
    [d \in {DayOf(cs[n].DateTime) : n \in DOMAIN cs} |->
        SelectSeq(cs, LAMBDA c : DayOf(c.DateTime) = d)]

\* the days of the map in chronological order (part_001:463-468)
sortedDays(cs) == SortAsc(SetToSeq(DOMAIN groupCommitsByDay(cs)))

RECURSIVE CadencePlans(_, _, _)
\* the commits of a day left newest first
CadencePlansUnreversed(cs, days, cfg) ==
    IF days = <<>> THEN {[commits |-> <<>>, times |-> <<>>]}
    ELSE LET dayCommits == groupCommitsByDay(cs)[Head(days)]
             reversedCommits == dayCommits
         IN {[commits |-> reversedCommits \o rest.commits, times |-> t \o rest.times] :
                t \in DayPlans(Head(days), dayCommits[1].DateTime.zone, Len(dayCommits), cfg),
                rest \in CadencePlans(cs, Tail(days), cfg)}

\* allCommits and allNewTimes as the loop over sortedDays builds them: per
\* day the commits reversed and the times of one generateCommitTimesForDay
\* call, in the zone of the day's first commit (part_001:470-507)
CadencePlans(cs, days, cfg) ==
    IF days = <<>> THEN {[commits |-> <<>>, times |-> <<>>]}
    ELSE LET dayCommits == groupCommitsByDay(cs)[Head(days)]
             reversedCommits == Reverse(dayCommits)
         IN {[commits |-> reversedCommits \o rest.commits, times |-> t \o rest.times] :
                t \in DayPlans(Head(days), dayCommits[1].DateTime.zone, Len(dayCommits), cfg),
                rest \in CadencePlans(cs, Tail(days), cfg)}

RECURSIVE enumerateDaysSkipping(_, _, _)
\* the days start..end whose weekday is not in skip (part_001:635-644)
enumerateDaysSkipping(start, end, skip) ==
    IF start > end THEN <<>>
    ELSE IF Weekday(start) \in skip THEN enumerateDaysSkipping(start + 1, end, skip)
    ELSE <<start>> \o enumerateDaysSkipping(start + 1, end, skip)

\* with no day in between, every middle commit goes to the first day
allocateAcrossDaysFirstHeavy(n, m, jitterDays, offs) ==
    IF m <= 0 THEN <<>>
    ELSE IF n <= 0 THEN [x \in 1..m |-> 0]
    ELSE IF n = 1 THEN [x \in 1..m |-> IF x = m THEN 1 ELSE 0]
    ELSE IF m = 1 THEN <<n>>
    ELSE LET middleCommits == n - 2
             availableDays == m - 2
             dayOffset(c) == IF jitterDays THEN offs[c + 1]
                             ELSE (c * 7 + c * c) % availableDays
             added(x) ==
                 IF availableDays > 0
                 THEN Cardinality({c \in 0..(middleCommits - 1) : 1 + dayOffset(c) = x - 1})
                 ELSE IF x = 1 THEN Cardinality({c \in 0..(middleCommits - 1) : TRUE})
                 ELSE IF x = m THEN Cardinality({c \in 0..(middleCommits - 1) : FALSE})
                 ELSE 0
         IN [x \in 1..m |-> (IF x = 1 \/ x = m THEN 1 ELSE 0) + added(x)]

\* with no day in between, the middle commits that would go to the last day are lost
allocateAcrossDaysDropping(n, m, jitterDays, offs) ==
    IF m <= 0 THEN <<>>
    ELSE IF n <= 0 THEN [x \in 1..m |-> 0]
    ELSE IF n = 1 THEN [x \in 1..m |-> IF x = m THEN 1 ELSE 0]
    ELSE IF m = 1 THEN <<n>>
    ELSE LET middleCommits == n - 2
             availableDays == m - 2
             dayOffset(c) == IF jitterDays THEN offs[c + 1]
                             ELSE (c * 7 + c * c) % availableDays
             added(x) ==
                 IF availableDays > 0
                 THEN Cardinality({c \in 0..(middleCommits - 1) : 1 + dayOffset(c) = x - 1})
                 ELSE IF x = 1 THEN Cardinality({c \in 0..(middleCommits - 1) : c % 2 = 0})
                 ELSE IF x = m THEN Cardinality({c \in 0..(middleCommits - 1) : FALSE})
                 ELSE 0
         IN [x \in 1..m |-> (IF x = 1 \/ x = m THEN 1 ELSE 0) + added(x)]

\* the newest commit is put on the day before the last
allocateAcrossDaysUnanchored(n, m, jitterDays, offs) ==
    IF m <= 0 THEN <<>>
    ELSE IF n <= 0 THEN [x \in 1..m |-> 0]
    ELSE IF n = 1 THEN [x \in 1..m |-> IF x = m THEN 1 ELSE 0]
    ELSE IF m = 1 THEN <<n>>
    ELSE LET middleCommits == n - 2
             availableDays == m - 2
             dayOffset(c) == IF jitterDays THEN offs[c + 1]
                             ELSE (c * 7 + c * c) % availableDays
             added(x) ==
                 IF availableDays > 0
                 THEN Cardinality({c \in 0..(middleCommits - 1) : 1 + dayOffset(c) = x - 1})
                 ELSE IF x = 1 THEN Cardinality({c \in 0..(middleCommits - 1) : c % 2 = 0})
                 ELSE IF x = m THEN Cardinality({c \in 0..(middleCommits - 1) : c % 2 = 1})
                 ELSE 0
         IN [x \in 1..m |-> (IF x = 1 THEN 1 ELSE 0) + (IF x = m - 1 THEN 1 ELSE 0) + added(x)]

\* a single commit goes to the first day
allocateAcrossDaysSingleFirst(n, m, jitterDays, offs) ==
    IF m <= 0 THEN <<>>
    ELSE IF n <= 0 THEN [x \in 1..m |-> 0]
    ELSE IF n = 1 THEN [x \in 1..m |-> IF x = 1 THEN 1 ELSE 0]
    ELSE IF m = 1 THEN <<n>>
    ELSE LET middleCommits == n - 2
             availableDays == m - 2
             dayOffset(c) == IF jitterDays THEN offs[c + 1]
                             ELSE (c * 7 + c * c) % availableDays
             added(x) ==
                 IF availableDays > 0
                 THEN Cardinality({c \in 0..(middleCommits - 1) : 1 + dayOffset(c) = x - 1})
                 ELSE IF x = 1 THEN Cardinality({c \in 0..(middleCommits - 1) : c % 2 = 0})
                 ELSE IF x = m THEN Cardinality({c \in 0..(middleCommits - 1) : c % 2 = 1})
                 ELSE 0
         IN [x \in 1..m |-> (IF x = 1 \/ x = m THEN 1 ELSE 0) + added(x)]

\* the middle commits go round the days in between one after the other
allocateAcrossDaysLinear(n, m, jitterDays, offs) ==
    IF m <= 0 THEN <<>>
    ELSE IF n <= 0 THEN [x \in 1..m |-> 0]
    ELSE IF n = 1 THEN [x \in 1..m |-> IF x = m THEN 1 ELSE 0]
    ELSE IF m = 1 THEN <<n>>
    ELSE LET middleCommits == n - 2
             availableDays == m - 2
             dayOffset(c) == IF jitterDays THEN offs[c + 1]
                             ELSE c % availableDays
             added(x) ==
                 IF availableDays > 0
                 THEN Cardinality({c \in 0..(middleCommits - 1) : 1 + dayOffset(c) = x - 1})
                 ELSE IF x = 1 THEN Cardinality({c \in 0..(middleCommits - 1) : c % 2 = 0})
                 ELSE IF x = m THEN Cardinality({c \in 0..(middleCommits - 1) : c % 2 = 1})
                 ELSE 0
         IN [x \in 1..m |-> (IF x = 1 \/ x = m THEN 1 ELSE 0) + added(x)]

\* the middle commits with an odd index go to the first day
allocateAcrossDaysOddFirst(n, m, jitterDays, offs) ==
    IF m <= 0 THEN <<>>
    ELSE IF n <= 0 THEN [x \in 1..m |-> 0]
    ELSE IF n = 1 THEN [x \in 1..m |-> IF x = m THEN 1 ELSE 0]
    ELSE IF m = 1 THEN <<n>>
    ELSE LET middleCommits == n - 2
             availableDays == m - 2
             dayOffset(c) == IF jitterDays THEN offs[c + 1]
                             ELSE (c * 7 + c * c) % availableDays
             added(x) ==
                 IF availableDays > 0
                 THEN Cardinality({c \in 0..(middleCommits - 1) : 1 + dayOffset(c) = x - 1})
                 ELSE IF x = 1 THEN Cardinality({c \in 0..(middleCommits - 1) : c % 2 = 1})
                 ELSE IF x = m THEN Cardinality({c \in 0..(middleCommits - 1) : c % 2 = 0})
                 ELSE 0
         IN [x \in 1..m |-> (IF x = 1 \/ x = m THEN 1 ELSE 0) + added(x)]

\* allocateAcrossDays(n, m), offs[x] being the value rand.Intn(availableDays)
\* returns for the x-th middle commit (part_001:647-711)
allocateAcrossDays(n, m, jitterDays, offs) ==
    IF m <= 0 THEN <<>>
    ELSE IF n <= 0 THEN [x \in 1..m |-> 0]
    ELSE IF n = 1 THEN [x \in 1..m |-> IF x = m THEN 1 ELSE 0]
    ELSE IF m = 1 THEN <<n>>
    ELSE LET middleCommits == n - 2
             availableDays == m - 2
             dayOffset(c) == IF jitterDays THEN offs[c + 1]
                             ELSE (c * 7 + c * c) % availableDays
             added(x) ==
                 IF availableDays > 0
                 THEN Cardinality({c \in 0..(middleCommits - 1) : 1 + dayOffset(c) = x - 1})
                 ELSE IF x = 1 THEN Cardinality({c \in 0..(middleCommits - 1) : c % 2 = 0})
                 ELSE IF x = m THEN Cardinality({c \in 0..(middleCommits - 1) : c % 2 = 1})
                 ELSE 0
         IN [x \in 1..m |-> (IF x = 1 \/ x = m THEN 1 ELSE 0) + added(x)]

\* what allocateAcrossDays can return, over every value of the random source
AllocOutcomes(n, m, cfg) ==
    LET middle == IF cfg.JitterDays /\ n > 2 THEN n - 2 ELSE 0
        top == IF m > 2 THEN m - 3 ELSE 0
    IN {allocateAcrossDays(n, m, cfg.JitterDays, offs) : offs \in [1..middle -> 0..top]}

RECURSIVE SpanPlans(_, _, _, _, _, _, _)
\* allCommits and allNewTimes as the loop over days builds them from day x
\* on: alloc[x] commits of ordered from cursor, with the times of one
\* generateCommitTimesForDay call (part_001:839-869)
SpanPlans(ordered, days, alloc, loc, cfg, cursor, x) ==
    IF x > Len(days) THEN {[commits |-> <<>>, times |-> <<>>]}
    ELSE IF alloc[x] = 0 THEN SpanPlans(ordered, days, alloc, loc, cfg, cursor, x + 1)
    ELSE {[commits |-> SubSeq(ordered, cursor + 1, cursor + alloc[x]) \o rest.commits,
           times |-> t \o rest.times] :
             t \in DayPlans(days[x], loc, alloc[x], cfg),
             rest \in SpanPlans(ordered, days, alloc, loc, cfg, cursor + alloc[x], x + 1)}

\* ------------------------------------------------------ GetUnpushedCommits
\* the git processes GetUnpushedCommits starts: git branch --show-current,
\* git rev-parse HEAD, git rev-parse <branch>@{upstream}, git remote, git
\* rev-parse --verify origin/<branch>, the same for another remote, git log
\* <parentGitBranchName>..<branch>, and every other git log
Calls == {"showCurrent", "revParseHead", "upstream", "remote",
          "verifyOrigin", "verifyOther", "logParent", "log"}

\* how the repository knows the commit `at` as pushed: as the upstream of the
\* branch, as origin/<branch>, as <remote>/<branch> of another remote, as the
\* configured parent branch; "unresolved" has remotes but none of these refs,
\* "none" has no remote at all
RemoteKinds == {"none", "unresolved", "upstream", "origin", "other", "parent"}
Remote(kind, at) ==
    [remotes |-> kind # "none",
     upstream |-> IF kind = "upstream" THEN at ELSE NoHash,
     origin |-> IF kind \in {"upstream", "origin"} THEN at ELSE NoHash,
     other |-> IF kind = "other" THEN at ELSE NoHash,
     parent |-> IF kind = "parent" THEN at ELSE NoHash]

\* getCommitsFirstParentWithMerges: git log --first-parent of <base>..HEAD,
\* of all of HEAD's history when there is no base, newest first (git.go:128-143)
getCommitsFirstParentWithMerges(base) ==
    LET line == SelectSeq(FirstParent(HeadCommit),
                          LAMBDA c : base = NoHash \/ c \notin Ancestors(base))
    IN [n \in 1..Len(line) |-> CommitOf(objects, line[n])]

\* a failing git log answered with the empty list in every strategy
GetUnpushedCommitsLenient(rem, fail) ==
    LET empty == [err |-> FALSE, commits |-> <<>>]
        error == [err |-> TRUE, commits |-> <<>>]
        found(base) == [err |-> FALSE, commits |-> getCommitsFirstParentWithMerges(base)]
        against(base) == IF "log" \in fail THEN empty ELSE found(base)
        all == IF "log" \in fail THEN empty ELSE found(NoHash)
    IN IF "showCurrent" \in fail THEN error
       ELSE IF head.branch = "" THEN empty
       ELSE IF "revParseHead" \in fail \/ HeadCommit \notin DOMAIN objects THEN empty
       ELSE IF "upstream" \notin fail /\ rem.upstream # NoHash THEN against(rem.upstream)
       ELSE IF "remote" \in fail \/ ~rem.remotes THEN all
       ELSE IF "verifyOrigin" \notin fail /\ rem.origin # NoHash THEN against(rem.origin)
       ELSE IF "verifyOther" \notin fail /\ rem.other # NoHash THEN against(rem.other)
       ELSE IF "logParent" \notin fail /\ rem.parent # NoHash THEN found(rem.parent)
       ELSE all

\* GetUnpushedCommits on a repository whose remotes are rem, the processes in
\* fail failing (git.go:146-228)
GetUnpushedCommits(rem, fail) ==
    LET empty == [err |-> FALSE, commits |-> <<>>]
        error == [err |-> TRUE, commits |-> <<>>]
        found(base) == [err |-> FALSE, commits |-> getCommitsFirstParentWithMerges(base)]
        against(base) == IF "log" \in fail THEN error ELSE found(base)
        all == IF "log" \in fail THEN empty ELSE found(NoHash)
    IN IF "showCurrent" \in fail THEN error
       ELSE IF head.branch = "" THEN empty
       ELSE IF "revParseHead" \in fail \/ HeadCommit \notin DOMAIN objects THEN empty
       ELSE IF "upstream" \notin fail /\ rem.upstream # NoHash THEN against(rem.upstream)
       ELSE IF "remote" \in fail \/ ~rem.remotes THEN all
       ELSE IF "verifyOrigin" \notin fail /\ rem.origin # NoHash THEN against(rem.origin)
       ELSE IF "verifyOther" \notin fail /\ rem.other # NoHash THEN against(rem.other)
       ELSE IF "logParent" \notin fail /\ rem.parent # NoHash THEN found(rem.parent)
       ELSE all

\* ------------------------------------- commitCadence / commitCadenceSpan
\* no repository is being looked at
NoRepo ==
    [objects |-> <<>>,
     refs |-> (MainBranch :> NoHash) @@ (RewriteBranchName :> NoHash) @@ (RemoteRef :> NoHash),
     head |-> [branch |-> "", at |-> NoHash]]

\* the loop body is left for the next repository of gitRepos: its variables
\* and those of the UpdateCommitTimes call go out of scope, and the
\* repository is not looked at again
NextRepo ==
    /\ repo' = repo + 1
    /\ runPc' = "loop"
    /\ objects' = NoRepo.objects
    /\ refs' = NoRepo.refs
    /\ head' = NoRepo.head
    /\ inProgress' = "none"
    /\ tip0' = 0
    /\ unpushedCommits' = <<>>
    /\ commits' = <<>>
    /\ newTimes' = <<>>
    /\ parentCommitHash' = emptyTreeHash
    /\ branchName' = ""
    /\ pc' = "idle"
    /\ i' = 0
    /\ successfulUpdates' = 0
    /\ result' = [count |-> 0, err |-> "none"]
    /\ iter' = NoIter
    /\ applyLog' = <<>>

\* createBackupsForRepos(gitRepos), the first thing both commands do: nothing
\* when CreateBackup is off; otherwise cp -r for every repository of the
\* list, a failed copy being reported and passed over (part_001:733-756,
\* 405-408, 764-767)
createBackupsForRepos ==
    /\ runPc = "backup"
    /\ IF ~config.CreateBackup
       THEN backups' = {}
       ELSE \E copied \in SUBSET (1..NumRepos) : backups' = copied
    /\ runPc' = "loop"
    /\ UNCHANGED <<gitVars, argVars, locVars, cmd, config, fnVars, repo, unpushedCommits>>

\* the next repository of the list is taken up: a backup folder is skipped
\* (part_001:417-422, 775-780); any other is found with some history, pushed
\* up to the shared parent or not at all, on its branch or on a detached HEAD
OpenRepo ==
    /\ runPc = "loop"
    /\ repo <= NumRepos
    /\ \E isBackupFolder \in BOOLEAN :
         IF isBackupFolder
         THEN NextRepo
         ELSE /\ \E hasParent \in BOOLEAN, k \in 1..MaxUnpushed, z \in Zones,
                    detached \in BOOLEAN, isPushed \in BOOLEAN :
                   \E shapes \in [1..k -> Shapes], days \in [1..k -> CommitDays] :
                     /\ hasParent \/ shapes[1] = "pick"
                     /\ isPushed => hasParent
                     /\ LET h == BuildHistory(BaseObjects(hasParent),
                                              IF hasParent THEN 2 ELSE NoHash, <<>>, shapes,
                                              OtherUser, [j \in 1..k |-> OrigDateOn(days[j], j, z)], 1)
                        IN /\ objects' = h.objects
                           /\ refs' = (MainBranch :> h.line[k]) @@ (RewriteBranchName :> NoHash)
                                        @@ (RemoteRef :> IF isPushed THEN 2 ELSE NoHash)
                           /\ tip0' = h.line[k]
                           /\ head' = IF detached THEN [branch |-> "", at |-> h.line[k]]
                                      ELSE [branch |-> MainBranch, at |-> NoHash]
              /\ inProgress' = "none"
              /\ runPc' = "query"
              /\ UNCHANGED <<repo, unpushedCommits, commits, newTimes,
                             parentCommitHash, branchName, locVars>>
    /\ UNCHANGED <<newCommitAuthorName, newCommitAuthorEmail, cmd, config, backups, fnVars>>

\* the sets of at most MaxFailures processes
FailureSets == {f \in SUBSET Calls : Cardinality(f) <= MaxFailures}

\* git.GetUnpushedCommits(repo, ParentGitBranchName); an error and an empty
\* list both end the loop body (part_001:424-433, 782-790)
QueryUnpushed ==
    /\ runPc = "query"
    /\ \E r \in {GetUnpushedCommits(Remote(kind, refs[RemoteRef]), fail) :
                   kind \in {x \in RemoteKinds :
                               (refs[RemoteRef] = NoHash) = (x \in {"none", "unresolved"})},
                   fail \in FailureSets} :
         IF r.err
         THEN NextRepo
         ELSE IF Len(r.commits) = 0
         THEN NextRepo
         ELSE /\ unpushedCommits' = r.commits
              /\ runPc' = "currentBranch"
              /\ UNCHANGED <<gitVars, tip0, repo, commits, newTimes,
                             parentCommitHash, branchName, locVars>>
    /\ UNCHANGED <<newCommitAuthorName, newCommitAuthorEmail, cmd, config, backups, fnVars>>

\* where the command goes when git.GetCurrentBranch fails: commit_cadence
\* calls os.Exit(1), commit_cadence_span continues (part_001:439-442, 795-798)
BranchErrorExits(command) == command = CmdCommitCadence

\* git.GetCurrentBranch(repo): git branch --show-current, an empty answer
\* being an error too (part_001:437-443, 794-799; git.go:335-348)
LookupBranch ==
    /\ runPc = "currentBranch"
    /\ \E ok \in BOOLEAN :
         IF ok /\ head.branch # ""
         THEN /\ branchName' = head.branch
              /\ runPc' = "parent"
              /\ UNCHANGED <<gitVars, tip0, repo, unpushedCommits, commits,
                             newTimes, parentCommitHash, locVars>>
         ELSE IF BranchErrorExits(cmd)
         THEN /\ runPc' = "exited"
              /\ UNCHANGED <<gitVars, tip0, repo, unpushedCommits, commits, newTimes,
                             parentCommitHash, branchName, locVars>>
         ELSE NextRepo
    /\ UNCHANGED <<newCommitAuthorName, newCommitAuthorEmail, cmd, config, backups, fnVars>>

\* git.GetParentCommit(repo, oldest.Hash): git rev-parse <hash>^, any error
\* answered with the empty tree (part_001:445-454, 801-809; git.go:231-240)
LookupParent ==
    /\ runPc = "parent"
    /\ LET oldest == unpushedCommits[Len(unpushedCommits)]
       IN \E ok \in BOOLEAN :
            parentCommitHash' = IF ok /\ objects[oldest.Hash].parents # <<>>
                                THEN objects[oldest.Hash].parents[1]
                                ELSE emptyTreeHash
    /\ runPc' = "plan"
    /\ UNCHANGED <<gitVars, commits, newTimes, branchName, newCommitAuthorName,
                   newCommitAuthorEmail, tip0, locVars, cmd, config, backups, fnVars, repo, unpushedCommits>>

\* git.UpdateCommitTimes(repo, allCommits, allNewTimes, parentCommitHash,
\* currentBranch, RewriteBranchName, ...) is entered
StartCall(allCommits, allNewTimes) ==
    /\ commits' = allCommits
    /\ newTimes' = allNewTimes
    /\ pc' = "checkoutParent"
    /\ runPc' = "call"
    /\ UNCHANGED <<gitVars, tip0, repo, unpushedCommits, parentCommitHash,
                   branchName, i, successfulUpdates, result, iter, applyLog>>

\* the configuration the commands run under
RunConfig == DefaultConfig

\* the commits and their new times are put together and handed to
\* UpdateCommitTimes: per day of the commits in commit_cadence (part_001:
\* 456-512), across the eligible days up to today in commit_cadence_span
\* (part_001:811-876)
Plan ==
    /\ runPc = "plan"
    /\ IF cmd = CmdCommitCadence
       THEN \E p \in CadencePlans(unpushedCommits, sortedDays(unpushedCommits), config) :
              IF Len(p.commits) > 0
              THEN StartCall(p.commits, p.times)
              ELSE NextRepo
       ELSE LET oldestUnpushed == unpushedCommits[Len(unpushedCommits)]
                loc == oldestUnpushed.DateTime.zone
                startDay == DayOf(oldestUnpushed.DateTime)
                today == DayOf(In(NowTime, loc))
                days == enumerateDaysSkipping(startDay, today, config.skipWeekdaysSet)
                ordered == Reverse(unpushedCommits)
            IN IF Len(days) = 0
               THEN NextRepo
               ELSE \E alloc \in AllocOutcomes(Len(ordered), Len(days), config) :
                      \E p \in SpanPlans(ordered, days, alloc, loc, config, 0, 1) :
                        IF Len(p.commits) # Len(p.times) \/ Len(p.commits) = 0
                        THEN NextRepo
                        ELSE StartCall(p.commits, p.times)
    /\ UNCHANGED <<newCommitAuthorName, newCommitAuthorEmail, cmd, config, backups, fnVars>>

\* UpdateCommitTimes has returned: a failure is reported, and the loop goes
\* on with the next repository (part_001:512-525, 876-887)
AfterUpdate ==
    /\ runPc = "call"
    /\ pc \in {"Done", "Failed"}
    /\ NextRepo
    /\ UNCHANGED <<newCommitAuthorName, newCommitAuthorEmail, cmd, config, backups, fnVars>>

\* the list is exhausted: the summary line is printed and the command returns
\* (part_001:527, 889)
Summary ==
    /\ runPc = "loop"
    /\ repo > NumRepos
    /\ runPc' = "summary"
    /\ UNCHANGED <<gitVars, argVars, locVars, cmd, config, backups, fnVars, repo, unpushedCommits>>

\* one of the two commands started on a list of NumRepos repositories under
\* the default configuration (no author override, part_001:59-60), no
\* repository looked at yet
InitRun ==
    /\ cmd \in {CmdCommitCadence, CmdCommitCadenceSpan}
    /\ config = RunConfig
    /\ backups = {}
    /\ fnArgs = NoCall
    /\ fnResult = NoResult
    /\ newCommitAuthorName = ""
    /\ newCommitAuthorEmail = ""
    /\ repo = 1
    /\ runPc = "backup"
    /\ unpushedCommits = <<>>
    /\ objects = NoRepo.objects
    /\ refs = NoRepo.refs
    /\ head = NoRepo.head
    /\ inProgress = "none"
    /\ tip0 = 0
    /\ commits = <<>>
    /\ newTimes = <<>>
    /\ parentCommitHash = emptyTreeHash
    /\ branchName = ""
    /\ pc = "idle"
    /\ i = 0
    /\ successfulUpdates = 0
    /\ result = [count |-> 0, err |-> "none"]
    /\ iter = NoIter
    /\ applyLog = <<>>

NextRun ==
    \/ createBackupsForRepos
    \/ OpenRepo
    \/ QueryUnpushed
    \/ LookupBranch
    \/ LookupParent
    \/ Plan
    \/ CheckoutParent
    \/ CreateBranch
    \/ GetMessage
    \/ Merge
    \/ CherryPick
    \/ Status
    \/ Continue
    \/ Skip
    \/ Abort
    \/ AllowEmpty
    \/ Amend
    \/ CheckoutB
    \/ DeleteBranch
    \/ AfterUpdate
    \/ Summary

SpecRun == InitRun /\ [][NextRun]_vars

\* ================================================================ claims
\* ids of the objects the repository held before the call
Original == 1..tip0
\* commit c shows wall-clock time t as author date and as committer date
Carries(c, t) == objects[c].adate.sec = t.sec /\ objects[c].cdate.sec = t.sec
\* the call returned
Returned == pc \in {"Done", "Failed"}
\* the first-parent line of the original branch, oldest first
Line == Reverse(FirstParent(refs[branchName]))

\* C1: on success the original branch is the root parent followed by exactly
\* k new commits, the j-th of which carries planned time j as author date and
\* committer date, whatever recovery steps were taken on the way.
C1_KCommitsStamped ==
    pc = "Done" =>
      LET k == Len(commits)
          below == IF parentCommitHash = emptyTreeHash THEN <<>>
                   ELSE Reverse(FirstParent(parentCommitHash))
      IN /\ Len(Line) = Len(below) + k
         /\ \A n \in 1..Len(below) : Line[n] = below[n]
         /\ \A j \in 1..k : /\ Line[Len(below) + j] \notin Original
                            /\ Carries(Line[Len(below) + j], newTimes[j])

\* C2: every amend rewrites the commit its own iteration's apply step made,
\* and the root parent with all its ancestors stays on the original branch
\* once the call has returned.
C2_SharedHistoryUntouched ==
    /\ \A n \in 1..Len(applyLog) : applyLog[n].made # NoHash /\ applyLog[n].target = applyLog[n].made
    /\ (Returned /\ parentCommitHash # emptyTreeHash)
         => Ancestors(parentCommitHash) \subseteq Ancestors(refs[branchName])

\* C3: on success every input merge has become a new commit whose parents are
\* the tip just before the merge and the original merge source.
C3_MergeKeepsTwoParents ==
    pc = "Done" =>
      \A j \in 1..Len(commits) :
        commits[j].IsMerge =>
          /\ applyLog[j].stamped \notin Original
          /\ objects[applyLog[j].stamped].parents = <<applyLog[j].tipBefore, commits[j].MergeFrom>>

\* C4: without an author override a rewritten commit has the author name and
\* email of the commit it replays; with an override it has the override's.
C4_AuthorKeptOrOverridden ==
    \A j \in 1..Len(applyLog) :
      LET a == objects[applyLog[j].stamped].author
      IN /\ (newCommitAuthorName = "" /\ newCommitAuthorEmail = "")
              => (a.name = commits[j].Author /\ a.email = commits[j].Email)
         /\ (newCommitAuthorName # "" /\ newCommitAuthorEmail # "")
              => (a.name = newCommitAuthorName /\ a.email = newCommitAuthorEmail)

\* the recovery steps run for the commit that failed, in order
LadderSteps == [n \in 1..Len(iter.ladder) |-> iter.ladder[n][1]]
\* step n of the ladder was run and failed
LadderFailed(n) == iter.ladder[n][2] = FALSE

\* C5 as stated: a replay conflict (merge or cherry-pick) is fatal only after
\* continue, skip, abort and the retry allowing an empty result were all run
\* and continue, skip and the retry failed.
C5_FatalOnlyAfterFullLadder ==
    (pc = "Failed" /\ result.err \in {"merge", "cherryPick"}) =>
      /\ LadderSteps = <<"status", "continue", "skip", "abort", "allowEmpty">>
      /\ LadderFailed(2) /\ LadderFailed(3) /\ LadderFailed(5)

\* C5 amended: a cherry-pick whose in-progress state is detected is fatal only
\* after continue, skip and the retry allowing an empty result were run and
\* failed (abort runs in between, its outcome ignored); a cherry-pick without
\* a detected in-progress state is fatal after the retry alone failed; a merge
\* that cannot apply is fatal at once, no recovery step being run.
C5_LadderPerFailureKind ==
    /\ (pc = "Failed" /\ result.err = "cherryPick") =>
         IF iter.ladder[1] = <<"status", TRUE>>
         THEN /\ LadderSteps = <<"status", "continue", "skip", "abort", "allowEmpty">>
              /\ LadderFailed(2) /\ LadderFailed(3) /\ LadderFailed(5)
         ELSE iter.ladder = <<<<"status", FALSE>>, <<"allowEmpty", FALSE>>>>
    /\ (pc = "Failed" /\ result.err = "merge") => iter.ladder = <<>>

C5_Witness ==
    /\ pc = "Failed" /\ result.err = "cherryPick"
    /\ Len(iter.ladder) = 5
    /\ successfulUpdates = 1

\* the number of input commits for which the apply step put a commit on the
\* disposable branch and the amend of the same iteration stamped it with the
\* planned time
Replayed ==
    Cardinality({j \in 1..Len(applyLog) :
        /\ applyLog[j].target # applyLog[j].tipBefore
        /\ Carries(applyLog[j].stamped, newTimes[j])})

\* C6: the returned count is the number of input commits replayed as a new
\* commit and stamped with their planned time: k on success, the number
\* completed before the failing commit on failure, 0 when the root checkout
\* or the branch creation fails.
C6_CountIsReplayed ==
    Returned =>
      /\ result.count = Replayed
      /\ pc = "Done" => result.count = Len(commits)
      /\ result.err \in {"checkoutParent", "createBranch"} => result.count = 0

\* C7 as stated: a failure after the disposable branch was created leaves the
\* disposable branch in place, holding what was replayed, and the original
\* branch on its original tip.
C7_FailedLeavesRefs ==
    (pc = "Failed" /\ result.err \notin {"checkoutParent", "createBranch"}) =>
      /\ refs[RewriteBranchName] # NoHash
      /\ Len(applyLog) > 0 => IsAncestor(applyLog[Len(applyLog)].stamped, refs[RewriteBranchName])
      /\ refs[branchName] = tip0

\* C7 amended: as stated for every failure up to and including the forced
\* checkout of the original branch; when only the final deletion of the
\* disposable branch fails, the disposable branch is still in place but the
\* original branch already points to the rewritten tip.
C7_FailedLeavesRefsBeforeSwap ==
    (pc = "Failed" /\ result.err \notin {"checkoutParent", "createBranch"}) =>
      /\ refs[RewriteBranchName] # NoHash
      /\ Len(applyLog) > 0 => IsAncestor(applyLog[Len(applyLog)].stamped, refs[RewriteBranchName])
      /\ IF result.err = "deleteBranch"
         THEN refs[branchName] = refs[RewriteBranchName]
         ELSE refs[branchName] = tip0

C7_Witness ==
    /\ pc = "Failed" /\ result.err = "amend"
    /\ Len(applyLog) = 1
    /\ refs[RewriteBranchName] \notin Original

\* C8: the original branch moves only in the forced checkout that follows the
\* amend of the last input commit; on success it is checked out, points to the
\* tip the rewrite produced, and the disposable branch is gone.
C8_SwapOnlyAfterAll ==
    [][ /\ refs'[branchName] # refs[branchName] =>
             /\ pc = "checkoutB"
             /\ Len(applyLog) = Len(commits)
             /\ successfulUpdates = Len(commits)
        /\ pc' = "Done" =>
             /\ Len(applyLog') = Len(commits)
             /\ refs'[branchName] = applyLog'[Len(applyLog')].stamped
             /\ head' = [branch |-> branchName, at |-> NoHash]
             /\ refs'[RewriteBranchName] = NoHash ]_vars

C8_Witness ==
    /\ pc = "Done"
    /\ Len(commits) = MaxCommits
    /\ refs[branchName] # tip0

\* the command has ended: the summary was printed or the process exited
RunEnded == runPc \in {"summary", "exited"}

\* C9: in commit_cadence and in commit_cadence_span no failure met in one
\* repository (history query, current-branch lookup, parent lookup, rewrite)
\* ends the run: when the command has ended, the loop body has run for every
\* repository of the list.
C9_FailureNeverEndsRun ==
    RunEnded => repo > NumRepos

\* UpdateCommitTimes has returned to the command, which does not touch the
\* repository again: the repository is as the invocation leaves it
RewriteEnded == runPc = "call" /\ pc \in {"Done", "Failed"}
\* the next invocation's rewrite can start: the original branch is checked
\* out and the disposable branch name is free
Restartable ==
    /\ head = [branch |-> branchName, at |-> NoHash]
    /\ refs[RewriteBranchName] = NoHash

PlanDays == {0, 1, 2}

\* configurations planned under: the defaults; a work day from midnight to
\* 23:00 with no weekday skipped; a work day of one hour with no jitter of
\* minutes or days
PlanConfigs ==
    {DefaultConfig,
     [DefaultConfig EXCEPT !.WorkDayStartHour = 0, !.WorkDayEndHour = 23,
                           !.skipWeekdaysSet = {}],
     [DefaultConfig EXCEPT !.WorkDayStartHour = 9, !.WorkDayEndHour = 10,
                           !.JitterMinutes = 0, !.JitterDays = FALSE]}

\* the loop body of either command about to plan for one repository: the
\* history query has returned k plain commits above the shared parent P,
\* each dated on some day in some zone, and the branch and the parent have
\* been looked up (part_001:424-454, 782-809)
InitPlan ==
    /\ cmd \in {CmdCommitCadence, CmdCommitCadenceSpan}
    /\ config \in PlanConfigs
    /\ backups = {}
    /\ fnArgs = NoCall
    /\ fnResult = NoResult
    /\ newCommitAuthorName = ""
    /\ newCommitAuthorEmail = ""
    /\ repo = NumRepos
    /\ runPc = "plan"
    /\ \E k \in 1..MaxPlanned :
         \E days \in [1..k -> PlanDays], zs \in [1..k -> Zones] :
           LET h == BuildHistory(BaseObjects(TRUE), 2, <<>>, [j \in 1..k |-> "pick"], OtherUser,
                                 [j \in 1..k |-> OrigDateOn(days[j], j, zs[j])], 1)
           IN /\ objects = h.objects
              /\ refs = (MainBranch :> h.line[k]) @@ (RewriteBranchName :> NoHash)
                           @@ (RemoteRef :> 2)
              /\ tip0 = h.line[k]
              /\ unpushedCommits = Reverse([j \in 1..k |-> CommitOf(h.objects, h.line[j])])
    /\ head = [branch |-> MainBranch, at |-> NoHash]
    /\ inProgress = "none"
    /\ branchName = MainBranch
    /\ parentCommitHash = 2
    /\ commits = <<>>
    /\ newTimes = <<>>
    /\ pc = "idle"
    /\ i = 0
    /\ successfulUpdates = 0
    /\ result = [count |-> 0, err |-> "none"]
    /\ iter = NoIter
    /\ applyLog = <<>>

NextPlan == Plan

SpecPlan == InitPlan /\ [][NextPlan]_vars

\* ------------------------------------ the planner's functions on their own
\* neither command is running and no repository is looked at
NoRun ==
    /\ cmd = CmdCommitCadenceSpan
    /\ config = DefaultConfig
    /\ backups = {}
    /\ newCommitAuthorName = ""
    /\ newCommitAuthorEmail = ""
    /\ repo = 1
    /\ runPc = "idle"
    /\ unpushedCommits = <<>>
    /\ objects = NoRepo.objects
    /\ refs = NoRepo.refs
    /\ head = NoRepo.head
    /\ inProgress = "none"
    /\ tip0 = 0
    /\ commits = <<>>
    /\ newTimes = <<>>
    /\ parentCommitHash = emptyTreeHash
    /\ branchName = ""
    /\ pc = "idle"
    /\ i = 0
    /\ successfulUpdates = 0
    /\ result = [count |-> 0, err |-> "none"]
    /\ iter = NoIter
    /\ applyLog = <<>>

\* allocateAcrossDays(n, m) is about to be called, JitterDays being on or off
InitAlloc ==
    /\ NoRun
    /\ \E n \in 0..MaxN, m \in 1..MaxM, jitterDays \in BOOLEAN :
         /\ jitterDays => n <= MaxJitterN
         /\ fnArgs = [fn |-> "allocateAcrossDays", n |-> n, m |-> m, JitterDays |-> jitterDays]
    /\ fnResult = NoResult

\* one call of allocateAcrossDays with these arguments returns
Allocate ==
    /\ fnArgs.fn = "allocateAcrossDays"
    /\ \E out \in AllocOutcomes(fnArgs.n, fnArgs.m,
                                [DefaultConfig EXCEPT !.JitterDays = fnArgs.JitterDays]) :
         fnResult' = [returned |-> TRUE, value |-> out]
    /\ UNCHANGED <<gitVars, argVars, locVars, runVars, fnArgs>>

NextAlloc == Allocate

SpecAlloc == InitAlloc /\ [][NextAlloc]_vars

\* ------------------------------------------------------------------------
\* hours a work day can start and end at
Hours == {0, 9, 10, 19, 23, 24}
\* values of JitterMinutes: no jitter, the default, more than an hour, more
\* than any work day
JitterValues == {0, 30, 90, 1500}

\* generateCommitTimesForDay(day, commitCount) is about to be called for a day
\* in some zone, under some work window (of no length too) and jitter
InitDay ==
    /\ NoRun
    /\ \E day \in CommitDays, z \in Zones, commitCount \in (0 - 1)..MaxPlainCount,
          start \in Hours, end \in Hours, jitter \in JitterValues :
         /\ start <= end
         /\ jitter > 0 => commitCount <= MaxCount
         /\ fnArgs = [fn |-> "generateCommitTimesForDay", day |-> day, zone |-> z,
                      commitCount |-> commitCount,
                      cfg |-> [DefaultConfig EXCEPT !.WorkDayStartHour = start,
                                                    !.WorkDayEndHour = end,
                                                    !.JitterMinutes = jitter]]
    /\ fnResult = NoResult

\* one call of generateCommitTimesForDay with these arguments returns
Generate ==
    /\ fnArgs.fn = "generateCommitTimesForDay"
    /\ \E times \in DayPlans(fnArgs.day, fnArgs.zone, fnArgs.commitCount, fnArgs.cfg) :
         fnResult' = [returned |-> TRUE, value |-> times]
    /\ UNCHANGED <<gitVars, argVars, locVars, runVars, fnArgs>>

NextDay == Generate

SpecDay == InitDay /\ [][NextDay]_vars

\* ------------------------------------------------------------------------
\* git.GetUnpushedCommits is about to be called on a repository: one without
\* any commit, or one with some history on its branch (checked out or not),
\* known to its remotes in one of the ways of RemoteKinds; the git processes
\* in fail are going to fail
InitQuery ==
    /\ cmd = CmdCommitCadence
    /\ config = DefaultConfig
    /\ backups = {}
    /\ newCommitAuthorName = ""
    /\ newCommitAuthorEmail = ""
    /\ repo = 1
    /\ runPc = "query"
    /\ unpushedCommits = <<>>
    /\ \E hasCommits \in BOOLEAN :
         IF ~hasCommits
         THEN /\ objects = NoRepo.objects
              /\ refs = NoRepo.refs
              /\ tip0 = NoHash
              /\ head = [branch |-> MainBranch, at |-> NoHash]
         ELSE \E hasParent \in BOOLEAN, k \in 1..MaxUnpushed, detached \in BOOLEAN,
                 isPushed \in BOOLEAN :
                \E shapes \in [1..k -> Shapes] :
                  /\ hasParent \/ shapes[1] = "pick"
                  /\ isPushed => hasParent
                  /\ LET h == BuildHistory(BaseObjects(hasParent),
                                           IF hasParent THEN 2 ELSE NoHash, <<>>, shapes,
                                           OtherUser, [j \in 1..k |-> OrigDateOn(1, j, LocalZone)], 1)
                     IN /\ objects = h.objects
                        /\ refs = (MainBranch :> h.line[k]) @@ (RewriteBranchName :> NoHash)
                                     @@ (RemoteRef :> IF isPushed THEN 2 ELSE NoHash)
                        /\ tip0 = h.line[k]
                        /\ head = IF detached THEN [branch |-> "", at |-> h.line[k]]
                                  ELSE [branch |-> MainBranch, at |-> NoHash]
    /\ inProgress = "none"
    /\ commits = <<>>
    /\ newTimes = <<>>
    /\ parentCommitHash = emptyTreeHash
    /\ branchName = ""
    /\ pc = "idle"
    /\ i = 0
    /\ successfulUpdates = 0
    /\ result = [count |-> 0, err |-> "none"]
    /\ iter = NoIter
    /\ applyLog = <<>>
    /\ \E kind \in RemoteKinds, fail \in FailureSets :
         /\ (refs[RemoteRef] = NoHash) = (kind \in {"none", "unresolved"})
         /\ fnArgs = [fn |-> "GetUnpushedCommits", kind |-> kind,
                      rem |-> Remote(kind, refs[RemoteRef]), fail |-> fail]
    /\ fnResult = NoResult

\* the call returns its list of commits and whether it returned an error
Query ==
    /\ fnArgs.fn = "GetUnpushedCommits"
    /\ ~fnResult.returned
    /\ fnResult' = [returned |-> TRUE, value |-> GetUnpushedCommits(fnArgs.rem, fnArgs.fail)]
    /\ UNCHANGED <<gitVars, argVars, locVars, runVars, fnArgs>>

NextQuery == Query

SpecQuery == InitQuery /\ [][NextQuery]_vars

\* the rewrite of the repository at hand has moved its original branch
Rewritten == runPc = "call" /\ branchName # "" /\ refs[branchName] # tip0

\* C11: under the default configuration a repository is rewritten by
\* commit_cadence or commit_cadence_span only after a backup copy of it was
\* made earlier in the same invocation.
C11_RewrittenOnlyAfterBackup ==
    Rewritten => repo \in backups

\* allCommits and allNewTimes have just been handed to UpdateCommitTimes
Handed == runPc = "call" /\ pc = "checkoutParent"
\* the unshared commits in their history order, oldest first
HistoryOrder == Reverse(unpushedCommits)

\* C12: in both commands the commit sequence handed to UpdateCommitTimes is
\* the list of unshared commits in history order, oldest first, nothing
\* dropped, duplicated or reordered, whatever the commits' original dates.
C12_HandedInHistoryOrder ==
    Handed => commits = HistoryOrder

\* the place of the commit with hash h in the sequence handed over
PlaceOf(h) == CHOOSE x \in DOMAIN commits : commits[x].Hash = h
\* the planned time paired with the commit of hash h, as the wall-clock
\* date-time UpdateCommitTimes formats it to
PlannedFor(h) == FormatTime(newTimes[PlaceOf(h)])

\* C13 as stated: the two sequences handed to the executor have the same
\* length, and along the history order of the commits (oldest first) the
\* planned timestamps never decrease, in both commands and for every work
\* window.
C13_TimesFollowHistory ==
    Handed =>
      /\ Len(commits) = Len(newTimes)
      /\ \A a, b \in DOMAIN HistoryOrder :
            a < b => PlannedFor(HistoryOrder[a].Hash) <= PlannedFor(HistoryOrder[b].Hash)

\* C13 amended: the two sequences always have the same length and the
\* timestamps never decrease along the sequence handed over.  Along the
\* history order they never decrease in commit_cadence_span, and in
\* commit_cadence between two commits of which the later one in history is
\* not dated on an earlier calendar day than the other.
C13_TimesFollowHandedOrder ==
    Handed =>
      /\ Len(commits) = Len(newTimes)
      /\ \A x, y \in DOMAIN newTimes :
            x < y => FormatTime(newTimes[x]) <= FormatTime(newTimes[y])
      /\ \A a, b \in DOMAIN HistoryOrder :
            (/\ a < b
             /\ \/ cmd = CmdCommitCadenceSpan
                \/ DayOf(HistoryOrder[a].DateTime) <= DayOf(HistoryOrder[b].DateTime))
            => PlannedFor(HistoryOrder[a].Hash) <= PlannedFor(HistoryOrder[b].Hash)

C13_Witness ==
    /\ Handed
    /\ cmd = CmdCommitCadence
    /\ Len(commits) = MaxPlanned
    /\ commits # HistoryOrder
    /\ config.WorkDayStartHour = 0
    /\ \E x \in DOMAIN newTimes : x > 1 /\ FormatTime(newTimes[x - 1]) < FormatTime(newTimes[x])

Allocated == fnArgs.fn = "allocateAcrossDays" /\ fnResult.returned
RECURSIVE Sum(_)
Sum(s) == IF s = <<>> THEN 0 ELSE Head(s) + Sum(Tail(s))
\* any two counts of s differ by at most one
Even(s) == \A x, y \in DOMAIN s : s[x] - s[y] <= 1

C16_CountsSumToN ==
    Allocated =>
      LET n == fnArgs.n
          m == fnArgs.m
          out == fnResult.value
      IN /\ Len(out) = m
         /\ \A x \in 1..m : out[x] >= 0
         /\ Sum(out) = n
         /\ n = 0 => \A x \in 1..m : out[x] = 0
         /\ m = 1 => out = <<n>>

C16_Witness ==
    /\ Allocated
    /\ fnArgs.JitterDays
    /\ fnArgs.n = MaxJitterN
    /\ fnArgs.m = MaxM
    /\ \E x \in 2..(fnArgs.m - 1) : fnResult.value[x] >= 2

\* C17: for every n > 1 and m > 1, with or without day jitter, the first
\* and the last count allocateAcrossDays(n, m) returns are at least 1.
C17_EndsAnchored ==
    (Allocated /\ fnArgs.n > 1 /\ fnArgs.m > 1) =>
      /\ fnResult.value[1] >= 1
      /\ fnResult.value[fnArgs.m] >= 1

C17_Witness ==
    /\ Allocated
    /\ fnArgs.n = 2
    /\ fnArgs.m = MaxM
    /\ fnArgs.JitterDays
    /\ fnResult.value[fnArgs.m] = 1

\* C18: for n = 1 and every m > 1, with or without day jitter,
\* allocateAcrossDays returns 1 for the last day and 0 for every other day.
C18_SingleCommitOnLastDay ==
    (Allocated /\ fnArgs.n = 1 /\ fnArgs.m > 1) =>
      fnResult.value = [x \in 1..fnArgs.m |-> IF x = fnArgs.m THEN 1 ELSE 0]

C18_Witness ==
    /\ Allocated
    /\ fnArgs.n = 1
    /\ fnArgs.m = 3
    /\ ~fnArgs.JitterDays
    /\ fnResult.value = <<0, 0, 1>>

RECURSIVE ReferenceFrom(_, _, _, _)
\* the reference result of C19 built one middle commit at a time: out with
\* one added to slot 1 + ((7 c + c c) mod (m - 2)) for every middle commit
\* c from c to n - 3 (slots counted from 0)
ReferenceFrom(out, c, n, m) ==
    IF c > n - 3 THEN out
    ELSE LET slot == 1 + ((7 * c + c * c) % (m - 2))
         IN ReferenceFrom([out EXCEPT ![slot + 1] = @ + 1], c + 1, n, m)
Reference(n, m) ==
    ReferenceFrom([x \in 1..m |-> IF x = 1 \/ x = m THEN 1 ELSE 0], 0, n, m)

\* C19: without day jitter, for every n >= 2 and m >= 3,
\* allocateAcrossDays(n, m) is the reference result (one commit on the first
\* and one on the last day, middle commit c on day 1 + ((7 c + c c) mod
\* (m - 2))), whichever call it is; (6,3) gives [1,4,1], (7,3) [1,5,1],
\* (15,4) [1,13,0,1] and (3,7) [1,1,0,0,0,0,1].
C19_DeterministicReference ==
    (Allocated /\ ~fnArgs.JitterDays /\ fnArgs.n >= 2 /\ fnArgs.m >= 3) =>
      LET n == fnArgs.n
          m == fnArgs.m
          out == fnResult.value
      IN /\ out = Reference(n, m)
         /\ (n = 6 /\ m = 3) => out = <<1, 4, 1>>
         /\ (n = 7 /\ m = 3) => out = <<1, 5, 1>>
         /\ (n = 15 /\ m = 4) => out = <<1, 13, 0, 1>>
         /\ (n = 3 /\ m = 7) => out = <<1, 1, 0, 0, 0, 0, 1>>

C19_Witness ==
    /\ Allocated
    /\ ~fnArgs.JitterDays
    /\ fnArgs.n = 15
    /\ fnArgs.m = 4
    /\ fnResult.value = <<1, 13, 0, 1>>

\* generateCommitTimesForDay has returned times for the arguments in fnArgs
Generated == fnArgs.fn = "generateCommitTimesForDay" /\ fnResult.returned

\* C20: for every commitCount >= 1, every JitterMinutes >= 0 and every work
\* window with start hour < end hour, generateCommitTimesForDay returns
\* commitCount timestamps in non-decreasing order, each on the given day and
\* at or after the start and before the end of the work day; for
\* commitCount <= 0 it returns no timestamp.
C20_DayTimesInWindow ==
    (Generated /\ fnArgs.cfg.WorkDayStartHour < fnArgs.cfg.WorkDayEndHour) =>
      LET times == fnResult.value
          workDayStart == fnArgs.day * DaySecs + fnArgs.cfg.WorkDayStartHour * 3600
          workDayEnd == fnArgs.day * DaySecs + fnArgs.cfg.WorkDayEndHour * 3600
      IN IF fnArgs.commitCount <= 0 THEN times = <<>>
         ELSE /\ Len(times) = fnArgs.commitCount
              /\ \A x, y \in DOMAIN times : x < y => times[x].sec <= times[y].sec
              /\ \A x \in DOMAIN times :
                    /\ DayOf(times[x]) = fnArgs.day
                    /\ times[x].zone = fnArgs.zone
                    /\ workDayStart <= times[x].sec
                    /\ times[x].sec < workDayEnd

C20_Witness ==
    /\ Generated
    /\ fnArgs.commitCount = MaxCount
    /\ fnArgs.cfg.WorkDayEndHour = 24
    /\ fnArgs.cfg.JitterMinutes > 60
    /\ fnResult.value[MaxCount].sec = fnArgs.day * DaySecs + 24 * 3600 - 60
    /\ fnResult.value[1].sec = fnArgs.day * DaySecs + fnArgs.cfg.WorkDayStartHour * 3600

\* start and end of the work day generateCommitTimesForDay was called for,
\* and the timestamps it returned
CallStart == fnArgs.day * DaySecs + fnArgs.cfg.WorkDayStartHour * 3600
CallEnd == fnArgs.day * DaySecs + fnArgs.cfg.WorkDayEndHour * 3600
TimeAt(x) == fnResult.value[x].sec

\* C21: for commitCount 1 and JitterMinutes 0, with start hour < end hour,
\* the one timestamp returned lies in the last hour of the work day, end - 60
\* minutes <= t < end, whatever the random source yields.
C21_SingleInLastHour ==
    (/\ Generated
     /\ fnArgs.commitCount = 1
     /\ fnArgs.cfg.JitterMinutes = 0
     /\ CallStart < CallEnd)
    => /\ Len(fnResult.value) = 1
       /\ CallEnd - 3600 <= TimeAt(1)
       /\ TimeAt(1) < CallEnd

C21_Witness ==
    /\ Generated
    /\ fnArgs.commitCount = 1
    /\ fnArgs.cfg.JitterMinutes = 0
    /\ fnArgs.cfg.WorkDayStartHour = 9
    /\ fnArgs.cfg.WorkDayEndHour = 10
    /\ TimeAt(1) = CallEnd - 59 * 60

\* a call without jitter for two commits or more and a work day of some length
PlainCall ==
    /\ Generated
    /\ fnArgs.commitCount >= 2
    /\ fnArgs.cfg.JitterMinutes = 0
    /\ CallStart < CallEnd
\* (end - start) / (commitCount - 1), cut to a whole number of clock units
CallInterval == (CallEnd - CallStart) \div (fnArgs.commitCount - 1)

\* C22 as stated: without jitter and for every commitCount n >= 2, with start
\* hour < end hour, the timestamps returned are start + x * interval for
\* x = 0..n-2, interval being (end - start) / (n - 1), and the last one is
\* exactly one minute before end.
C22_EvenAndLastBeforeEnd ==
    PlainCall =>
      /\ Len(fnResult.value) = fnArgs.commitCount
      /\ \A x \in 1..(fnArgs.commitCount - 1) : TimeAt(x) = CallStart + (x - 1) * CallInterval
      /\ TimeAt(fnArgs.commitCount) = CallEnd - 60

\* C22 amended: the timestamps returned are start + x * interval for
\* x = 0..n-2, interval being (end - start) / (n - 1) cut to a whole number
\* of clock units; the last one is one minute before end when n - 1 divides
\* the length of the work day, and otherwise start + (n - 1) * interval, which
\* is fewer than n - 1 clock units before end.
C22_LastBeforeEndWhenDivisible ==
    PlainCall =>
      LET n == fnArgs.commitCount
      IN /\ Len(fnResult.value) = n
         /\ \A x \in 1..(n - 1) : TimeAt(x) = CallStart + (x - 1) * CallInterval
         /\ TimeAt(n) = IF (n - 1) * CallInterval = CallEnd - CallStart
                          THEN CallEnd - 60
                          ELSE CallStart + (n - 1) * CallInterval
         /\ TimeAt(n) < CallEnd
         /\ TimeAt(n) > CallEnd - 60 => CallEnd - TimeAt(n) < n - 1

C22_Witness ==
    /\ PlainCall
    /\ fnArgs.commitCount = MaxPlainCount
    /\ fnArgs.cfg.WorkDayStartHour = 9
    /\ fnArgs.cfg.WorkDayEndHour = 10
    /\ TimeAt(MaxPlainCount) > CallEnd - 60

\* C23: when start hour and end hour are the same, every timestamp
\* generateCommitTimesForDay returns is start, for every commitCount >= 1,
\* every JitterMinutes and whatever the random source yields.
C23_DegenerateWindowAtStart ==
    (Generated /\ fnArgs.commitCount >= 1 /\ CallStart = CallEnd) =>
      \A x \in DOMAIN fnResult.value : TimeAt(x) = CallStart

\* GetUnpushedCommits has returned
Queried == fnArgs.fn = "GetUnpushedCommits" /\ fnResult.returned
\* the repository has no commit / no branch is checked out
NoCommits == objects = <<>>
NoBranch == head.branch = ""
\* the ref a strategy of GetUnpushedCommits finds to compare with: the
\* upstream of the branch, origin/<branch>, <remote>/<branch> of another
\* remote; NoHash when every one of them fails
TrackingRef ==
    LET rem == fnArgs.rem
        fail == fnArgs.fail
    IN IF "upstream" \notin fail /\ rem.upstream # NoHash THEN rem.upstream
       ELSE IF "remote" \in fail \/ ~rem.remotes THEN NoHash
       ELSE IF "verifyOrigin" \notin fail /\ rem.origin # NoHash THEN rem.origin
       ELSE IF "verifyOther" \notin fail /\ rem.other # NoHash THEN rem.other
       ELSE NoHash
\* the whole first-parent history of the branch, newest first
WholeHistory == getCommitsFirstParentWithMerges(NoHash)

\* C24 as stated: GetUnpushedCommits returns the empty list and no error
\* whenever the repository has no commit, no branch is checked out, or every
\* strategy to resolve an upstream fails; and a git log that fails inside
\* any strategy never reaches the caller as an error.
C24_QueryNeverFails ==
    Queried =>
      /\ (NoCommits \/ NoBranch \/ TrackingRef = NoHash) =>
            fnResult.value = [err |-> FALSE, commits |-> <<>>]
      /\ "log" \in fnArgs.fail => ~fnResult.value.err

\* C24 amended: a failing git branch --show-current is returned as an
\* error.  Otherwise the list is empty and there is no error when no branch
\* is checked out or the repository has no commit.  Otherwise, when an
\* upstream, origin/<branch> or <remote>/<branch> is found, a failing git log
\* against it is returned as an error; when none is found there is never an
\* error, and the list is the commits above the configured parent branch
\* or, failing that, the whole first-parent history of the branch (empty
\* only when that git log fails too).
C24_QueryFailsOnlyAgainstTrackingRef ==
    Queried =>
      LET fail == fnArgs.fail
          r == fnResult.value
      IN IF "showCurrent" \in fail THEN r.err
         ELSE IF NoBranch \/ NoCommits \/ "revParseHead" \in fail
         THEN r = [err |-> FALSE, commits |-> <<>>]
         ELSE IF TrackingRef # NoHash
         THEN /\ r.err = ("log" \in fail)
              /\ ~r.err => r.commits = getCommitsFirstParentWithMerges(TrackingRef)
         ELSE /\ ~r.err
              /\ \/ /\ fnArgs.rem.remotes
                    /\ fnArgs.rem.parent # NoHash
                    /\ r.commits = getCommitsFirstParentWithMerges(fnArgs.rem.parent)
                 \/ r.commits = IF "log" \in fail THEN <<>> ELSE WholeHistory

C24_Witness ==
    /\ Queried
    /\ fnArgs.kind = "unresolved"
    /\ ~NoBranch
    /\ fnArgs.fail = {}
    /\ Len(objects) > MaxUnpushed
    /\ fnResult.value.commits = WholeHistory
    /\ Len(fnResult.value.commits) > MaxUnpushed

\* UpdateCommitTimes has returned
Ended == pc \in {"Done", "Failed"}

\* C25: once started, UpdateCommitTimes always ends in Done or in Failed,
\* every git process returning: it stops in no other state, it goes through
\* the commits one by one without going back, and no recovery step is run
\* twice for one commit.
C25_AlwaysEnds ==
    /\ <>Ended
    /\ [](~Ended => ENABLED Next)
    /\ [](\A x, y \in DOMAIN LadderSteps : x # y => LadderSteps[x] # LadderSteps[y])
    /\ [][i' = i \/ i' = i + 1]_vars

C25_Witness ==
    /\ pc = "Failed"
    /\ i = MaxCommits
    /\ LadderSteps = <<"status", "continue", "skip", "abort", "allowEmpty">>

\* the cherry-pick of the commit at hand failed and git status showed a
\* cherry-pick in progress
InProgressDetected == Len(iter.ladder) >= 1 /\ iter.ladder[1] = <<"status", TRUE>>
\* the recovery steps in the order of the code
LadderOrder == <<"status", "continue", "skip", "abort", "allowEmpty">>
\* the recovery is still going on
Recovering == pc \in {"status", "continue", "skip", "abort", "allowEmpty"}

\* C26 as stated: with a cherry-pick in progress detected the recovery steps
\* are run in the order continue, skip, abort, retry allowing an empty
\* result, each one only after the one before it failed, and the recovery
\* stops at the first step that succeeds.
C26_EachStepAfterFailure ==
    InProgressDetected =>
      /\ LadderSteps = SubSeq(LadderOrder, 1, Len(iter.ladder))
      /\ \A n \in 3..Len(iter.ladder) : LadderFailed(n - 1)
      /\ \A n \in 2..Len(iter.ladder) : ~LadderFailed(n) => (n = Len(iter.ladder) /\ ~Recovering)

\* C26 amended: the steps are run in that order; skip is run only after
\* continue failed and abort only after skip failed, but the retry follows
\* abort whatever abort's outcome; the recovery stops at the first of
\* continue, skip and the retry that succeeds, and the executor goes on to
\* amend the tip as it does for an applied commit; it fails when the retry
\* fails.
C26_RetryFollowsAbort ==
    InProgressDetected =>
      /\ LadderSteps = SubSeq(LadderOrder, 1, Len(iter.ladder))
      /\ \A n \in 3..Len(iter.ladder) : LadderSteps[n] # "allowEmpty" => LadderFailed(n - 1)
      /\ \A n \in 2..Len(iter.ladder) :
            (~LadderFailed(n) /\ LadderSteps[n] # "abort") =>
              /\ n = Len(iter.ladder)
              /\ pc = "amend" \/ (Ended /\ result.err \in {"amend", "nil"}) \/ pc \in {"checkoutB", "deleteBranch"}
      /\ pc = "allowEmpty" <=> Len(iter.ladder) = 4
      /\ (Len(iter.ladder) = 5 /\ LadderFailed(5)) => (pc = "Failed" /\ result.err = "cherryPick")

C26_Witness ==
    /\ iter.ladder = <<<<"status", TRUE>>, <<"continue", FALSE>>, <<"skip", FALSE>>,
                       <<"abort", TRUE>>, <<"allowEmpty", TRUE>>>>
    /\ pc = "amend"
    /\ i = MaxCommits


\* ------------------------------------------------------------ C27
\* the first commit is about to be replayed: git checkout -b has just made the
\* disposable branch (git.go:406-413)
ReplayBegins == i = 1 /\ pc \in {"cherryPick", "getMessage"} /\ applyLog = <<>>
\* the parents of the oldest targeted commit
OldestParents == objects[commits[1].Hash].parents

\* C27: when replay begins the disposable branch points at the parent of the
\* oldest targeted commit, or at an empty root (no commit) when that commit is
\* the first of the repository, and no targeted original commit is reachable
\* from the disposable branch
C27_DisposableBranchAtParent ==
    ReplayBegins =>
      /\ refs[RewriteBranchName] = IF OldestParents = <<>> THEN NoHash ELSE OldestParents[1]
      /\ \A j \in DOMAIN commits : commits[j].Hash \notin Ancestors(refs[RewriteBranchName])

\* ------------------------------------------------------------ C28
\* the values rand.Intn(n) returns: 0 <= v < n
randIntn(n) == 0..(n - 1)
\* the jitter of one commit, in minutes: rand.Intn(JitterMinutes*2) - JitterMinutes
\* (part_001:550, 560)
JitterOffsets(J) == {v - J : v \in randIntn(J * 2)}

\* generateCommitTimesForDay is about to be called for a day of the default
\* work hours with a jitter magnitude J > 0
InitJitter ==
    /\ NoRun
    /\ \E day \in CommitDays, commitCount \in 1..MaxDrawn, J \in 1..MaxJitterMinutes :
         fnArgs = [fn |-> "generateCommitTimesForDay", day |-> day, zone |-> LocalZone,
                   commitCount |-> commitCount, cfg |-> [DefaultConfig EXCEPT !.JitterMinutes = J]]
    /\ fnResult = NoResult

\* one call of generateCommitTimesForDay returns, jitter[x] being the offset
\* it drew for its x-th time (part_001:531-579)
GenerateDrawn ==
    /\ fnArgs.fn = "generateCommitTimesForDay"
    /\ ~fnResult.returned
    /\ \E r \in RandDraws, jit \in [1..fnArgs.commitCount -> JitterOffsets(fnArgs.cfg.JitterMinutes)] :
         fnResult' = [returned |-> TRUE,
                      value |-> generateCommitTimesForDay(fnArgs.day, fnArgs.zone, fnArgs.commitCount,
                                                          fnArgs.cfg, r, jit),
                      jitter |-> jit]
    /\ UNCHANGED <<gitVars, argVars, locVars, runVars, fnArgs>>

NextJitter == GenerateDrawn

SpecJitter == InitJitter /\ [][NextJitter]_vars

\* the offsets the claim gives to a jitter magnitude J
Symmetric(J) == (0 - J)..J

\* C28: for every jitter magnitude J > 0 each commit's jitter offset is drawn
\* independently from -J..+J: no call draws an offset outside that range, and
\* for every commit of the call every offset of the range, +J included, can
\* be the one drawn
C28_JitterSymmetric ==
    LET J == fnArgs.cfg.JitterMinutes
    IN /\ fnResult.returned =>
            \A x \in DOMAIN fnResult.jitter : fnResult.jitter[x] \in Symmetric(J)
       /\ ~fnResult.returned =>
            \A x \in 1..fnArgs.commitCount : \A d \in Symmetric(J) :
               ENABLED (GenerateDrawn /\ fnResult'.jitter[x] = d)

\* ------------------------------------------------------------ C29
\* Text is a sequence of pieces: a piece is a word without separator, or one
\* of the separators "|", " " and "\n"
\* strings.Split(s, sep): the pieces between the occurrences of sep
Split(s, sep) ==
    LET at == {p \in DOMAIN s : s[p] = sep}
        \* where the k-th occurrence of sep is; 0 and Len(s) + 1 around them
        edge(k) == IF k = 0 THEN 0
                   ELSE IF k > Cardinality(at) THEN Len(s) + 1
                   ELSE CHOOSE p \in at : Cardinality({q \in at : q < p}) = k - 1
    IN [k \in 1..(Cardinality(at) + 1) |-> SubSeq(s, edge(k - 1) + 1, edge(k) - 1)]

\* strings.Fields(s): the words between runs of white space
Fields(s) == SelectSeq(Split(s, " "), LAMBDA f : Len(f) > 0)

WhiteSpace == {" ", "\n"}
\* strings.TrimSpace(s)
TrimSpace(s) ==
    LET kept == {p \in DOMAIN s : s[p] \notin WhiteSpace}
    IN IF kept = {} THEN <<>>
       ELSE SubSeq(s, CHOOSE p \in kept : \A q \in kept : p <= q,
                      CHOOSE p \in kept : \A q \in kept : q <= p)

RECURSIVE Join(_, _)
\* the texts of s with sep between them
Join(s, sep) ==
    IF s = <<>> THEN <<>>
    ELSE IF Len(s) = 1 THEN s[1]
    ELSE s[1] \o <<sep>> \o Join(Tail(s), sep)

\* --pretty=format:%h|%s|%an|%ae|%ad|%P for one commit (git.go:131)
LogLine(c) ==
    Join(<<c.hash, c.subject, c.author, c.email, c.date, Join(c.parents, " ")>>, "|")

\* the output of git log for the commits of log, one line each (git.go:128-138)
LogOutput(log) == Join([x \in DOMAIN log |-> LogLine(log[x])], "\n")

\* parseCommitsWithMergeInfo(output) (git.go:86-124)
parseCommitsWithMergeInfo(output) ==
    IF Len(output) = 0 THEN <<>>
    ELSE LET lines == Split(TrimSpace(output), "\n")
             parsed(line) ==
                 LET parts == Split(line, "|")
                     parentHashes == Fields(parts[6])
                 IN [Hash |-> parts[1], Subject |-> parts[2], Author |-> parts[3],
                     Email |-> parts[4], DateTime |-> parts[5],
                     IsMerge |-> Len(parentHashes) > 1,
                     MergeFrom |-> IF Len(parentHashes) > 1 THEN parentHashes[2] ELSE <<>>]
             kept == SelectSeq(lines, LAMBDA line : Len(Split(line, "|")) >= 6)
         IN IF Len(lines) = 1 /\ lines[1] = <<>> THEN <<>>
            ELSE [x \in DOMAIN kept |-> parsed(kept[x])]

\* the texts of at most n pieces out of ps
RECURSIVE TextsOf(_, _)
TextsOf(ps, n) ==
    IF n = 0 THEN {<<>>}
    ELSE LET shorter == TextsOf(ps, n - 1)
         IN shorter \cup {Append(t, q) : t \in {u \in shorter : Len(u) = n - 1}, q \in ps}

\* the subjects (%s, one line of text), author names and emails of commits
Subjects == TextsOf({"fix", "|", " "}, MaxText)
AuthorNames == {<<"John">>, <<"John", " ", "Doe">>, <<"J", "|", "D">>}
AuthorEmails == {<<"john@example.com">>, <<"john", "|", "example.com">>}
\* --date=iso
IsoDate == <<"2024-01-01", " ", "10:00:00", " ", "+0000">>
ParentHashes == <<<<"def456">>, <<"ghi789">>, <<"jkl012">>, <<"mno345">>, <<"pqr678">>>>
\* a commit with k parents
LoggedCommit(subject, author, email, k) ==
    [hash |-> <<"abc123">>, subject |-> subject, author |-> author, email |-> email,
     date |-> IsoDate, parents |-> SubSeq(ParentHashes, 1, k)]
\* the older commits a history can go on with: none, a plain one, a merge
OlderCommits ==
    {<<>>, <<LoggedCommit(<<"First", " ", "commit">>, <<"Jane">>, <<"jane@example.com">>, 1)>>,
     <<LoggedCommit(<<"Merge">>, <<"Jane">>, <<"jane@example.com">>, 2)>>}

\* git log has printed the history log, newest first, and
\* parseCommitsWithMergeInfo is about to be called on the output
InitParse ==
    /\ NoRun
    /\ \E subject \in Subjects, author \in AuthorNames, email \in AuthorEmails,
          k \in 0..MaxParents, older \in OlderCommits :
         fnArgs = [fn |-> "parseCommitsWithMergeInfo",
                   log |-> <<LoggedCommit(subject, author, email, k)>> \o older]
    /\ fnResult = NoResult

\* parseCommitsWithMergeInfo returns
Parse ==
    /\ fnArgs.fn = "parseCommitsWithMergeInfo"
    /\ ~fnResult.returned
    /\ fnResult' = [returned |-> TRUE, value |-> parseCommitsWithMergeInfo(LogOutput(fnArgs.log))]
    /\ UNCHANGED <<gitVars, argVars, locVars, runVars, fnArgs>>

NextParse == Parse

SpecParse == InitParse /\ [][NextParse]_vars

Parsed == fnArgs.fn = "parseCommitsWithMergeInfo" /\ fnResult.returned

\* C29: every line of history output yields a Commit whose IsMerge is true
\* exactly when the commit has more than one parent and whose MergeFrom is
\* the second parent hash for a merge and empty otherwise, whatever the
\* subject, author name and email of the commit
C29_MergeInfoFromParents ==
    Parsed =>
      /\ Len(fnResult.value) = Len(fnArgs.log)
      /\ \A x \in DOMAIN fnResult.value :
            LET parents == fnArgs.log[x].parents
            IN /\ fnResult.value[x].IsMerge = (Len(parents) > 1)
               /\ fnResult.value[x].MergeFrom = IF Len(parents) > 1 THEN parents[2] ELSE <<>>

\* ------------------------------------------------------------ C30
\* C30: for two days and every n >= 2, with or without day jitter,
\* allocateAcrossDays returns 1 + ceil((n-2)/2) for the first day and
\* 1 + floor((n-2)/2) for the last: the middle commits alternate between the
\* two days, beginning with the first.
C30_TwoDaysAlternate ==
    (Allocated /\ fnArgs.m = 2 /\ fnArgs.n >= 2) =>
      fnResult.value = <<1 + (fnArgs.n - 2 + 1) \div 2, 1 + (fnArgs.n - 2) \div 2>>

C30_Witness ==
    /\ Allocated
    /\ fnArgs.m = 2
    /\ fnArgs.n = 5
    /\ ~fnArgs.JitterDays
    /\ fnResult.value = <<3, 2>>
====
